---- MODULE Spec2Model ----
(***************************************************************************)
(* A model of devpost-validator: the configuration store, the rule engine, *)
(* the secret scanner and its risk score, the AI detector, the commit      *)
(* analyzer, validate_project with its scoring engine, and validate_urls.  *)
(* Real numbers are fixed-point integers: weights and                      *)
(* probabilities in thousandths (1000 = 1.0), scores in thousandths of a   *)
(* point (100000 = 100.0).                                                 *)
(***************************************************************************)
EXTENDS Integers, Sequences, FiniteSets, TLC

VARIABLES
    files,            \* ConfigManager.CONFIG_DIR: name -> <<>> or <<json document>>
    cm_current,       \* ConfigManager.current_config: <<>> (None) or <<config>>
    cfgOp,            \* the last ConfigManager call and what it returned
    custom_rules,     \* RuleEngine.custom_rules
    plugins,          \* RuleEngine.plugins: function-backed plugin modules
    plugin_instances, \* RuleEngine.plugin_instances: initialized PluginBase objects
    rule_dir,         \* RuleEngine.rule_dir: the *.json rule files on disk
    io_faults,        \* how many reads or writes of custom_rules.json have failed
    reOp,             \* the last RuleEngine call and what it returned
    vscores,          \* ValidationScore objects scored under one config
    score_thresholds, \* the ValidationThresholds of that config
    scoreOp,          \* the last call made on each ValidationScore
    ai_markers,       \* the cloned tree as the AI detector sees it
    ai_result,        \* what analyze_repo_content last returned, << >> before
    repo_file,        \* the file of the repository the secret scanner walks
    secret_cache,     \* SecretAnalyzer.cache_dir: one entry per file hash
    secret_results,   \* what analyze_repo last returned, << >> before
    pc,               \* where validate_project stands
    call,             \* its arguments and the validator's config
    local,            \* its local variables
    result,           \* the ValidationResult it builds
    commit_log,       \* the commits of the repository CommitAnalyzer is given
    commit_result,    \* what analyze_commits last did, << >> before
    risk_results,     \* a secret scan result handed to get_risk_score
    risk_score,       \* what get_risk_score returned for it, << >> before
    batch_urls,       \* the list validate_urls is given
    batch_validator,  \* the validator it is called on: token and features
    batch_pos,        \* the index of the URL its loop stands at
    batch_results,    \* its list results
    batch_pc          \* where validate_urls stands

cfgVars == <<files, cm_current, cfgOp>>

ruleVars == <<custom_rules, plugins, plugin_instances, rule_dir, io_faults, reOp>>

scoreVars == <<vscores, score_thresholds, scoreOp>>

aiVars == <<ai_markers, ai_result>>

secretVars == <<repo_file, secret_cache, secret_results>>

vpVars == <<pc, call, local, result>>

commitVars == <<commit_log, commit_result>>

riskVars == <<risk_results, risk_score>>

batchVars == <<batch_urls, batch_validator, batch_pos, batch_results, batch_pc>>

vars ==
    <<cfgVars, ruleVars, scoreVars, aiVars, secretVars, vpVars, commitVars,
      riskVars, batchVars>>

\* what a step of one component leaves alone: the other components
ConfigFrame ==
    UNCHANGED <<ruleVars, scoreVars, aiVars, secretVars, vpVars, commitVars,
                riskVars, batchVars>>

RuleFrame ==
    UNCHANGED <<cfgVars, scoreVars, aiVars, secretVars, vpVars, commitVars,
                riskVars, batchVars>>

ScoreFrame ==
    UNCHANGED <<cfgVars, ruleVars, aiVars, secretVars, vpVars, commitVars,
                riskVars, batchVars>>

AiFrame ==
    UNCHANGED <<cfgVars, ruleVars, scoreVars, secretVars, vpVars, commitVars,
                riskVars, batchVars>>

SecretFrame ==
    UNCHANGED <<cfgVars, ruleVars, scoreVars, aiVars, vpVars, commitVars,
                riskVars, batchVars>>

VpFrame ==
    UNCHANGED <<cfgVars, ruleVars, scoreVars, aiVars, secretVars, commitVars,
                riskVars, batchVars>>

CommitFrame ==
    UNCHANGED <<cfgVars, ruleVars, scoreVars, aiVars, secretVars, vpVars,
                riskVars, batchVars>>

RiskFrame ==
    UNCHANGED <<cfgVars, ruleVars, scoreVars, aiVars, secretVars, vpVars,
                commitVars, batchVars>>

BatchFrame ==
    UNCHANGED <<cfgVars, ruleVars, scoreVars, aiVars, secretVars, vpVars,
                commitVars, riskVars>>

(***************************************************************************)
(* Helpers                                                                 *)
(***************************************************************************)
Abs(x) == IF x < 0 THEN -x ELSE x

Min(a, b) == IF a < b THEN a ELSE b

Max(a, b) == IF a > b THEN a ELSE b

\* sum(d.values()) of a Python dict d, modelled as a function
RECURSIVE SumOver(_, _)
SumOver(d, keys) ==
    IF keys = {} THEN 0
    ELSE LET k == CHOOSE x \in keys : TRUE
         IN  d[k] + SumOver(d, keys \ {k})

SumValues(d) == SumOver(d, DOMAIN d)

(***************************************************************************)
(* config_manager.py                                                       *)
(***************************************************************************)
Categories ==
    {"timeline", "code_authenticity", "rule_compliance", "plagiarism",
     "team_compliance", "complexity", "technology", "commit_quality"}

\* the default_factory of HackathonConfig.score_weights
DefaultWeights ==
    [k \in Categories |->
        CASE k = "timeline"          -> 200
          [] k = "code_authenticity" -> 200
          [] k = "rule_compliance"   -> 150
          [] k = "plagiarism"        -> 100
          [] k = "team_compliance"   -> 100
          [] k = "complexity"        -> 100
          [] k = "technology"        -> 100
          [] k = "commit_quality"    -> 50]

\* 1.0 and 0.001 of validate_weights, in thousandths
WeightOne == 1000

WeightTolerance == 1

\* the weight dictionaries a caller may pass: the default, and every dict of
\* the CLI's eight keys that puts a and b on the first two and 0 elsewhere
WeightVals == {-500, 500, 502, 1500}

TwoWeights(a, b) ==
    [k \in Categories |->
        IF k = "timeline" THEN a ELSE IF k = "code_authenticity" THEN b ELSE 0]

WeightInputs ==
    {DefaultWeights} \cup {TwoWeights(a, b) : a \in WeightVals, b \in WeightVals}

ThresholdVals == {60000, 90000}

\* ValidationThresholds: no validator, any two floats are accepted
ValidationThresholds(p, r) == [pass_threshold |-> p, review_threshold |-> r]

DefaultThresholds == ValidationThresholds(90000, 60000)

\* ValidationFeatures, the toggles validate_project reads
ValidationFeatures(on) ==
    [analyze_code_complexity  |-> on,
     analyze_commit_patterns  |-> on,
     analyze_technology_stack |-> on,
     analyze_team_composition |-> on,
     check_plagiarism         |-> on,
     detect_security_issues   |-> on]

FeatureInputs == {ValidationFeatures(TRUE), ValidationFeatures(FALSE)}

ReportInputs == {[format |-> "html"], [format |-> "json"]}

\* @validator('score_weights'): TRUE when v is returned, FALSE when
\* ValueError is raised
validate_weights_unchecked(v) == TRUE

validate_weights(v) == ~(Abs(SumValues(v) - WeightOne) > WeightTolerance)

\* HackathonConfig(**data): pydantic runs the validators at construction
\* only (assignment to a field of a built object is not validated)
HackathonConfigAccepts(data) == validate_weights(data.score_weights)

ConfigData ==
    [score_weights         : WeightInputs,
     validation_thresholds : {ValidationThresholds(p, r) :
                                  p \in ThresholdVals, r \in ThresholdVals},
     validation_features   : FeatureInputs,
     report_settings       : ReportInputs]

ConfigNames == {"hack"}

\* config.model_dump_json(): the document holds every field of the object
model_dump_json(config) ==
    [score_weights         |-> config.score_weights,
     validation_thresholds |-> config.validation_thresholds,
     validation_features   |-> config.validation_features,
     report_settings       |-> config.report_settings]

\* the log of the last call: its name, what it returned (or raised) and the
\* sum of the weights it was given, <<>> when it takes no weights
CfgOp(op, ret, weight_sum) == [op |-> op, ret |-> ret, weight_sum |-> weight_sum]

ConfigIdle ==
    /\ files = [n \in ConfigNames |-> <<>>]
    /\ cm_current = <<>>
    /\ cfgOp = CfgOp("init", "None", <<>>)

\* what create_hackathon_config(config, name) leaves on disk
Written(config, name) == [files EXCEPT ![name] = <<model_dump_json(config)>>]

\* load_hackathon_config(name) as a function: <<>> when the file is missing
\* or HackathonConfig(**config_data) raises, else <<config>>
Loaded(name) ==
    IF files[name] = <<>> THEN <<>>
    ELSE IF HackathonConfigAccepts(files[name][1]) THEN <<files[name][1]>>
    ELSE <<>>

\* config = HackathonConfig(...); create_hackathon_config(config, name)
\* (cli.py create_config): a rejected construction raises before the call
create_hackathon_config(data, name) ==
    LET given == <<SumValues(data.score_weights)>>
    IN  /\ ConfigFrame
        /\ IF HackathonConfigAccepts(data)
           THEN /\ files' = Written(data, name)
                /\ cm_current' = <<data>>
                /\ cfgOp' = CfgOp("create_hackathon_config", "path", given)
           ELSE /\ UNCHANGED <<files, cm_current>>
                /\ cfgOp' = CfgOp("create_hackathon_config", "ValueError", given)

load_hackathon_config(name) ==
    /\ ConfigFrame
    /\ UNCHANGED files
    /\ IF files[name] = <<>>
       THEN /\ UNCHANGED cm_current
            /\ cfgOp' = CfgOp("load_hackathon_config", "None", <<>>)
       ELSE IF Loaded(name) = <<>>
       THEN /\ UNCHANGED cm_current
            /\ cfgOp' = CfgOp("load_hackathon_config", "ValueError", <<>>)
       ELSE /\ cm_current' = Loaded(name)
            /\ cfgOp' = CfgOp("load_hackathon_config", "config", <<>>)

\* the four update_* methods share: load, return False if missing, (for the
\* weights) return False on a bad sum, assign the field (no validation on
\* assignment), write back
UpdateWith(op, name, field, value, refused, given) ==
    /\ ConfigFrame
    /\ IF files[name] = <<>>
       THEN /\ UNCHANGED <<files, cm_current>>
            /\ cfgOp' = CfgOp(op, "False", given)
       ELSE IF Loaded(name) = <<>>
       THEN /\ UNCHANGED <<files, cm_current>>
            /\ cfgOp' = CfgOp(op, "ValueError", given)
       ELSE IF refused
       THEN /\ UNCHANGED files
            /\ cm_current' = Loaded(name)
            /\ cfgOp' = CfgOp(op, "False", given)
       ELSE LET config == [Loaded(name)[1] EXCEPT ![field] = value]
            IN  /\ files' = Written(config, name)
                /\ cm_current' = <<config>>
                /\ cfgOp' = CfgOp(op, "True", given)

update_validation_thresholds(name, pass_threshold, review_threshold) ==
    UpdateWith("update_validation_thresholds", name, "validation_thresholds",
               ValidationThresholds(pass_threshold, review_threshold),
               FALSE, <<>>)

update_score_weights(name, weights) ==
    UpdateWith("update_score_weights", name, "score_weights", weights,
               Abs(SumValues(weights) - WeightOne) > WeightTolerance,
               <<SumValues(weights)>>)

update_validation_features(name, features) ==
    UpdateWith("update_validation_features", name, "validation_features",
               features, FALSE, <<>>)

update_report_settings(name, settings) ==
    UpdateWith("update_report_settings", name, "report_settings",
               settings, FALSE, <<>>)

ConfigStep ==
    \/ \E d \in ConfigData, n \in ConfigNames : create_hackathon_config(d, n)
    \/ \E n \in ConfigNames : load_hackathon_config(n)
    \/ \E n \in ConfigNames, p \in ThresholdVals, r \in ThresholdVals :
           update_validation_thresholds(n, p, r)
    \/ \E n \in ConfigNames, w \in WeightInputs : update_score_weights(n, w)
    \/ \E n \in ConfigNames, f \in FeatureInputs :
           update_validation_features(n, f)
    \/ \E n \in ConfigNames, s \in ReportInputs : update_report_settings(n, s)

(***************************************************************************)
(* rule_engine.py                                                          *)
(*                                                                         *)
(* A rule is [name, pattern, severity] (its description plays no part).    *)
(* A regular expression is an opaque string: Compiles says whether         *)
(* re.compile accepts it, and a text is the set of patterns that match in  *)
(* it.                                                                     *)
(***************************************************************************)
Rule(name, pattern, severity) ==
    [name |-> name, pattern |-> pattern, severity |-> severity]

\* re.compile(pattern) raises re.error on these: an unbalanced parenthesis,
\* and a global flag that is not at the start of the expression
\* (examples/project_structure_plugin.py, missing_readme)
InvalidPatterns == {"(", "#readme|(?i)readme.md"}

Compiles(pattern) == pattern \notin InvalidPatterns

\* default_rules of _load_rules, the patterns abbreviated (all compile)
DefaultRules ==
    << Rule("hardcoded_credentials", "password=", "high"),
       Rule("debug_statement", "console.log|print", "low"),
       Rule("todo_comment", "TODO:", "low"),
       Rule("fixme_comment", "FIXME:", "medium"),
       Rule("commented_code", "#def", "low"),
       Rule("exception_swallowing", "except:pass", "medium"),
       Rule("magic_number", "[0-9]{4,}", "low"),
       Rule("nested_loop", "for.*for", "low"),
       Rule("sql_injection", "SELECT.*+", "high"),
       Rule("shell_injection", "os.system(.*+", "high"),
       Rule("unhandled_error", "throw new Error", "medium"),
       Rule("copilot_marker", "Copilot", "high"),
       Rule("chatgpt_marker", "ChatGPT", "high"),
       Rule("unnecessary_comment", "This function", "low"),
       Rule("default_export", "export default", "low") >>

\* the rules a caller passes to add_rule
AddRuleNames == {"todo_comment", "team_rule", ""}

AddRulePatterns == {"TODO:", "(", ""}

\* a plugin module: whether it defines a module-level check_content, its
\* PluginBase subclasses (name, what initialize() returns, register_rules()),
\* and its module-level register_rules() (has_register_rules, legacy_rules)
PluginClass(name, init_ok, class_rules) ==
    [name |-> name, init_ok |-> init_ok, rules |-> class_rules]

PluginModule(name, fn, classes, has_legacy, legacy) ==
    [name |-> name, has_check_content |-> fn, classes |-> classes,
     has_register_rules |-> has_legacy, legacy_rules |-> legacy]

\* examples/custom_plugin_example.py (the second of its two class rules)
CustomPluginExample ==
    PluginModule("custom_plugin_example", TRUE,
        << PluginClass("CustomPatternPlugin", TRUE,
               << Rule("vague_innovation_claim", "revolutionary", "medium") >>) >>,
        TRUE, << Rule("clickbait_title", "mind-blowing", "medium") >>)

\* examples/project_structure_plugin.py (its first rule does not compile)
ProjectStructurePlugin ==
    PluginModule("project_structure_plugin", FALSE,
        << PluginClass("ProjectStructurePlugin", TRUE,
               << Rule("missing_readme", "#readme|(?i)readme.md", "medium"),
                  Rule("setup_instructions", "(?i)how to install", "low") >>) >>,
        FALSE, << >>)

\* a class plugin whose initialize() returns False, in a module that, like
\* custom_plugin_example, also carries the legacy functions
FailingInitLegacy ==
    PluginModule("failing_init_legacy", TRUE,
        << PluginClass("FailingPlugin", FALSE,
               << Rule("never_registered", "never", "low") >>) >>,
        TRUE, << Rule("legacy_rule", "legacy", "medium") >>)

\* a class plugin whose initialize() returns False, and nothing else
FailingInitOnly ==
    PluginModule("failing_init_only", FALSE,
        << PluginClass("FailingOnly", FALSE,
               << Rule("never_registered", "never", "low") >>) >>,
        FALSE, << >>)

PluginCatalog ==
    {CustomPluginExample, ProjectStructurePlugin, FailingInitLegacy,
     FailingInitOnly}

\* a plugin path that is no file and no importable module
MissingModule == "no_such_plugin"

\* the rule files a user may have put in rule_dir before the engine starts
UserRuleFiles ==
    { << >>,
      << Rule("team_banned_word", "hackathon", "low") >>,
      << Rule("team_broken", "(", "low") >> }

MaxCustomRules == 3

MaxPlugins == 2

\* how many times the file system may fail a call
MaxIoFaults == 1

\* rule_dir: custom_rules.json (written by add_rule and remove_rule) and a
\* user's own rule file
RuleDir(exists, written, user) ==
    [custom_rules_json |-> [exists |-> exists, rules |-> written],
     user_json |-> user]

ReOp(op, arg, ret) == [op |-> op, arg |-> arg, ret |-> ret]

\* RuleEngine.__init__ and _load_rules: every *.json of rule_dir is read and
\* its rules are appended to custom_rules as they are
RuleEngineInit ==
    /\ \E user \in UserRuleFiles :
          /\ rule_dir = RuleDir(FALSE, << >>, user)
          /\ custom_rules = user
    /\ plugins = << >>
    /\ plugin_instances = << >>
    /\ io_faults = 0
    /\ reOp = ReOp("__init__", "", "None")

\* a call whose file access fails (io_ok false) uses up one fault; a call
\* that touches no file cannot fail that way
IoOutcome(io_ok, touches_file) ==
    /\ ~io_ok => (touches_file /\ io_faults < MaxIoFaults)
    /\ io_faults' = IF io_ok THEN io_faults ELSE io_faults + 1

get_all_rules == DefaultRules \o custom_rules

\* add_rule as a function of the engine's rules and disk: what it leaves
\* behind and what it returns. io_ok says whether reading and rewriting
\* custom_rules.json succeeds.
add_rule_result(st, name, pattern, severity, io_ok) ==
    IF name = "" \/ pattern = "" THEN [st EXCEPT !.ret = FALSE]
    ELSE IF ~Compiles(pattern) THEN [st EXCEPT !.ret = FALSE]
    ELSE LET new_rule == Rule(name, pattern, severity)
             existing_rules ==
                 IF st.dir.custom_rules_json.exists
                 THEN st.dir.custom_rules_json.rules ELSE << >>
         IN  IF io_ok
             THEN [custom_rules |-> Append(st.custom_rules, new_rule),
                   dir |-> [st.dir EXCEPT !.custom_rules_json =
                              [exists |-> TRUE,
                               rules |-> Append(existing_rules, new_rule)]],
                   ret |-> TRUE]
             ELSE [custom_rules |-> Append(st.custom_rules, new_rule),
                   dir |-> st.dir,
                   ret |-> FALSE]

\* the part of the engine add_rule reads and writes
EngineState == [custom_rules |-> custom_rules, dir |-> rule_dir, ret |-> FALSE]

BoolStr(b) == IF b THEN "True" ELSE "False"

add_rule(name, pattern, severity, io_ok) ==
    LET out == add_rule_result(EngineState, name, pattern, severity, io_ok)
    IN  /\ Len(custom_rules) < MaxCustomRules
        /\ Len(rule_dir.custom_rules_json.rules) < MaxCustomRules
        /\ custom_rules' = out.custom_rules
        /\ rule_dir' = out.dir
        /\ reOp' = ReOp("add_rule", pattern, BoolStr(out.ret))
        /\ IoOutcome(io_ok, name # "" /\ pattern # "" /\ Compiles(pattern))
        /\ UNCHANGED <<plugins, plugin_instances>>
        /\ RuleFrame

remove_rule(name, io_ok) ==
    LET kept == SelectSeq(custom_rules, LAMBDA r : r.name # name)
    IN  /\ RuleFrame
        /\ UNCHANGED <<plugins, plugin_instances>>
        /\ IoOutcome(io_ok, name # "" /\ Len(kept) # Len(custom_rules)
                                /\ rule_dir.custom_rules_json.exists)
        /\ IF name = "" \/ Len(kept) = Len(custom_rules)
           THEN /\ reOp' = ReOp("remove_rule", name, "False")
                /\ UNCHANGED <<custom_rules, rule_dir>>
           ELSE /\ custom_rules' = kept
                /\ rule_dir' =
                     IF io_ok /\ rule_dir.custom_rules_json.exists
                     THEN [rule_dir EXCEPT !.custom_rules_json.rules = kept]
                     ELSE rule_dir
                /\ reOp' = ReOp("remove_rule", name, BoolStr(io_ok))

\* the add_rule calls of load_plugin, one per rule, the results ignored
RECURSIVE AddRules(_, _, _)
AddRules(st, rs, io_ok) ==
    IF rs = << >> THEN st
    ELSE AddRules(add_rule_result(st, rs[1].name, rs[1].pattern,
                                  rs[1].severity, io_ok),
                  Tail(rs), io_ok)

\* the loop of load_plugin over the module's plugin classes
RECURSIVE LoadClasses(_, _, _)
LoadClasses(acc, classes, io_ok) ==
    IF classes = << >> THEN acc
    ELSE LET c == classes[1]
         IN  IF c.init_ok
             THEN LoadClasses(
                      [instances |-> Append(acc.instances, c.name),
                       st |-> AddRules(acc.st, c.rules, io_ok)],
                      Tail(classes), io_ok)
             ELSE LoadClasses(acc, Tail(classes), io_ok)

\* every rule load_plugin may hand to add_rule for module m
PluginRuleCount(m) ==
    Len(m.legacy_rules)
        + SumOver([i \in DOMAIN m.classes |-> Len(m.classes[i].rules)],
                  DOMAIN m.classes)

load_plugin(m, io_ok) ==
    LET plugins1 == IF m.has_check_content
                    THEN Append(plugins, m.name) ELSE plugins
        loaded == LoadClasses([instances |-> plugin_instances,
                               st |-> EngineState], m.classes, io_ok)
        st2 == IF m.has_register_rules
               THEN AddRules(loaded.st, m.legacy_rules, io_ok)
               ELSE loaded.st
    IN  /\ Len(custom_rules) + PluginRuleCount(m) <= MaxCustomRules
        /\ Len(rule_dir.custom_rules_json.rules) + PluginRuleCount(m)
               <= MaxCustomRules
        /\ Len(plugins) < MaxPlugins
        /\ Len(plugin_instances) < MaxPlugins
        /\ plugins' = plugins1
        /\ plugin_instances' = loaded.instances
        /\ custom_rules' = st2.custom_rules
        /\ rule_dir' = st2.dir
        /\ reOp' = ReOp("load_plugin", m.name,
                        BoolStr(plugins1 # << >> \/ loaded.instances # << >>))
        /\ IoOutcome(io_ok, st2.custom_rules # custom_rules)
        /\ RuleFrame

\* load_plugin of a path that is neither a file nor an importable module
load_plugin_missing ==
    /\ reOp' = ReOp("load_plugin", MissingModule, "False")
    /\ UNCHANGED <<custom_rules, plugins, plugin_instances, rule_dir, io_faults>>
    /\ RuleFrame

unload_plugin(plugin_name) ==
    LET hits == {i \in DOMAIN plugin_instances :
                    plugin_instances[i] = plugin_name}
    IN  /\ RuleFrame
        /\ UNCHANGED <<custom_rules, plugins, rule_dir, io_faults>>
        /\ IF hits = {}
           THEN /\ reOp' = ReOp("unload_plugin", plugin_name, "False")
                /\ UNCHANGED plugin_instances
           ELSE LET i == CHOOSE h \in hits : \A g \in hits : h <= g
                IN  /\ plugin_instances' =
                          SubSeq(plugin_instances, 1, i - 1)
                              \o SubSeq(plugin_instances, i + 1,
                                        Len(plugin_instances))
                    /\ reOp' = ReOp("unload_plugin", plugin_name, "True")

PluginClassNames ==
    UNION {{m.classes[i].name : i \in DOMAIN m.classes} : m \in PluginCatalog}

\* a text: whether it is the empty string, and the patterns that match in it
Content(empty, matching) == [empty |-> empty, matching |-> matching]

Contents ==
    {Content(TRUE, {})} \cup
    {Content(FALSE, ps) : ps \in SUBSET {"TODO:", "hackathon", "revolutionary"}}

\* the findings of the rule loop of check_content: one per matching rule (a
\* text is taken to hold each pattern once), none for a pattern re.finditer
\* rejects
RECURSIVE RuleFindings(_, _)
RuleFindings(rs, content) ==
    IF rs = << >> THEN << >>
    ELSE LET rule == rs[1]
             here == IF rule.pattern # "" /\ Compiles(rule.pattern)
                        /\ rule.pattern \in content.matching
                     THEN << [rule |-> rule.name, severity |-> rule.severity,
                              pattern |-> rule.pattern, origin |-> "rule"] >>
                     ELSE << >>
         IN  here \o RuleFindings(Tail(rs), content)

\* what the check_content of each loaded plugin contributes: here one
\* finding per plugin for every text
PluginFindings(names, kind) ==
    [i \in DOMAIN names |->
        [rule |-> names[i], severity |-> "medium", pattern |-> "",
         origin |-> kind]]

check_content(content) ==
    IF content.empty THEN << >>
    ELSE RuleFindings(DefaultRules \o custom_rules, content)
            \o PluginFindings(plugins, "function plugin")
            \o PluginFindings(plugin_instances, "class plugin")

has_plugin(name) ==
    \/ \E i \in DOMAIN plugin_instances : plugin_instances[i] = name
    \/ \E i \in DOMAIN plugins : plugins[i] = name

RuleStep ==
    \/ \E n \in AddRuleNames, pt \in AddRulePatterns, io \in BOOLEAN :
           add_rule(n, pt, "medium", io)
    \/ \E n \in AddRuleNames \cup {"team_banned_word", "legacy_rule"},
          io \in BOOLEAN : remove_rule(n, io)
    \/ \E m \in PluginCatalog, io \in BOOLEAN : load_plugin(m, io)
    \/ load_plugin_missing
    \/ \E n \in PluginClassNames : unload_plugin(n)

(***************************************************************************)
(* core.py: ValidationScore                                                *)
(***************************************************************************)
\* ValidationScore(): the eight sub-scores (keyed by category), the secret
\* score, the overall score and the category
ValidationScoreInit ==
    [scores                |-> [k \in Categories |-> 0],
     secret_security_score |-> 1000,
     overall_score         |-> 0,
     category              |-> "FAILED"]

\* weights.get(key, 0)
WeightOf(weights, key) == IF key \in DOMAIN weights THEN weights[key] ELSE 0

\* calculate_overall_score(weights): weights << >> is None or an empty dict
calculate_overall_score(vs, weights) ==
    LET w == IF weights = << >> THEN DefaultWeights ELSE weights
        products == [k \in Categories |-> WeightOf(w, k) * vs.scores[k]]
    IN  [vs EXCEPT !.overall_score = SumOver(products, Categories) \div 1000]

determine_category_strict(vs, thresholds) ==
    [vs EXCEPT !.category =
        IF vs.overall_score > thresholds.pass_threshold THEN "PASSED"
        ELSE IF vs.overall_score >= thresholds.review_threshold
        THEN "NEEDS_REVIEW"
        ELSE "FAILED"]

determine_category(vs, thresholds) ==
    [vs EXCEPT !.category =
        IF vs.overall_score >= thresholds.pass_threshold THEN "PASSED"
        ELSE IF vs.overall_score >= thresholds.review_threshold
        THEN "NEEDS_REVIEW"
        ELSE "FAILED"]

\* the ValidationScore objects of two results scored under one config
ScoreObjects == {1, 2}

\* sub-scores as _calculate_scores may assign them: a on timeline, b on
\* code authenticity, nothing elsewhere
ScoreVals == {20000, 80000, 100000}

TwoScores(a, b) ==
    [k \in Categories |->
        IF k = "timeline" THEN a ELSE IF k = "code_authenticity" THEN b ELSE 0]

\* weights as validate_project passes them: the defaults, an even split and
\* one with a negative entry (all three pass validate_weights)
ScoreWeights == {DefaultWeights, TwoWeights(500, 500), TwoWeights(1500, -500)}

ThresholdInputs ==
    {ValidationThresholds(p, r) : p \in ThresholdVals, r \in ThresholdVals}

ScoreInit ==
    /\ vscores = [i \in ScoreObjects |-> ValidationScoreInit]
    /\ score_thresholds \in ThresholdInputs
    /\ scoreOp = [i \in ScoreObjects |-> "__init__"]

\* the end of validate_project on result i: _calculate_scores assigns the
\* sub-scores, then result.scores.calculate_overall_score(weights)
score_project(i, a, b, weights) ==
    /\ vscores' = [vscores EXCEPT ![i] =
                      calculate_overall_score(
                          [@ EXCEPT !.scores = TwoScores(a, b)], weights)]
    /\ scoreOp' = [scoreOp EXCEPT ![i] = "calculate_overall_score"]
    /\ UNCHANGED score_thresholds
    /\ ScoreFrame

\* result.scores.determine_category(thresholds)
categorize(i) ==
    /\ vscores' = [vscores EXCEPT ![i] = determine_category(@, score_thresholds)]
    /\ scoreOp' = [scoreOp EXCEPT ![i] = "determine_category"]
    /\ UNCHANGED score_thresholds
    /\ ScoreFrame

ScoreStep ==
    \/ \E i \in ScoreObjects, a \in ScoreVals, b \in ScoreVals,
          w \in ScoreWeights : score_project(i, a, b, w)
    \/ \E i \in ScoreObjects : categorize(i)

(***************************************************************************)
(* ai_detector.py                                                          *)
(*                                                                         *)
(* The cloned tree is the number of places where a pattern of each         *)
(* confidence level matches; analyze_directory returns one finding per     *)
(* match.                                                                  *)
(***************************************************************************)
AIConfidence == {"high", "medium", "low"}

MaxAIFindings == 7

\* 0.15, 0.05 and 0.02 per finding, and the cap 0.95, in thousandths
HighWeight == 150

MediumWeight == 50

LowWeight == 20

AiScoreCap == 950

NoFindings == [c \in AIConfidence |-> 0]

CountFindings(findings) == findings.high + findings.medium + findings.low

\* the ai_score of analyze_repo_content for the findings of the tree
ai_score_uncapped(findings) ==
    IF CountFindings(findings) = 0 THEN 0
    ELSE findings.high * HighWeight + findings.medium * MediumWeight
            + findings.low * LowWeight

ai_score_of(findings) ==
    IF CountFindings(findings) = 0 THEN 0
    ELSE Min(AiScoreCap,
             findings.high * HighWeight + findings.medium * MediumWeight
                + findings.low * LowWeight)

AiInit ==
    /\ ai_markers = NoFindings
    /\ ai_result = << >>

\* a commit adds a line that one of the patterns matches
ai_add_marker(c) ==
    /\ CountFindings(ai_markers) < MaxAIFindings
    /\ ai_markers' = [ai_markers EXCEPT ![c] = @ + 1]
    /\ UNCHANGED ai_result
    /\ AiFrame

\* a commit removes such a line
ai_remove_marker(c) ==
    /\ ai_markers[c] > 0
    /\ ai_markers' = [ai_markers EXCEPT ![c] = @ - 1]
    /\ UNCHANGED ai_result
    /\ AiFrame

\* findings, ai_score = analyze_repo_content(local_path)
analyze_repo_content ==
    /\ ai_result' = << [findings |-> ai_markers,
                        ai_score |-> ai_score_of(ai_markers)] >>
    /\ UNCHANGED ai_markers
    /\ AiFrame

AiStep ==
    \/ \E c \in AIConfidence : ai_add_marker(c)
    \/ \E c \in AIConfidence : ai_remove_marker(c)
    \/ analyze_repo_content

(***************************************************************************)
(* secret_analyzer.py                                                      *)
(*                                                                         *)
(* A string is a sequence of characters.  The repository is one text file  *)
(* of one line; the lines considered carry at most one keyword "pwd=", so  *)
(* of secret_patterns only the Password pattern can match.                 *)
(***************************************************************************)
\* t in s
Has(s, t) ==
    \E i \in 0..(Len(s) - Len(t)) : SubSeq(s, i + 1, i + Len(t)) = t

StartsWith(s, t) == Len(t) <= Len(s) /\ SubSeq(s, 1, Len(t)) = t

EndsWith(s, t) ==
    Len(t) <= Len(s) /\ SubSeq(s, Len(s) - Len(t) + 1, Len(s)) = t

\* s.lower(), on the letters the lines of the model use
LowerChar(c) ==
    CASE c = "K" -> "k" [] c = "E" -> "e" [] c = "Y" -> "y" [] OTHER -> c

Lower(s) == [i \in DOMAIN s |-> LowerChar(s[i])]

\* s.strip() at the left end (startswith looks at nothing else)
RECURSIVE LStrip(_)
LStrip(s) ==
    IF s # << >> /\ s[1] = " " THEN LStrip(Tail(s)) ELSE s

\* \w on the characters of the model
WordChars ==
    {"a", "b", "c", "d", "e", "f", "g", "h", "k", "p", "r", "s", "t", "u",
     "w", "x", "y", "n", "K", "E", "Y", "1", "2", "_"}

\* the Password entry of secret_patterns: its text, type and risk
PasswordPattern ==
    << "(", "?", "i", ")", "(", "?", ":", "p", "a", "s", "s", "w", "o",
       "r", "d", "|", "p", "a", "s", "s", "w", "d", "|", "p", "w", "d",
       ")", "[", "-", "_", "]", "?", "[", "=", ":", " ", "\\", "\"",
       "'", "]", "+", "(", "[", "^", "'", "\\", "\"", "\\", "\\", "s",
       "]", "{", "8", ",", "}", ")" >>

PasswordType == <<"P", "a", "s", "s", "w", "o", "r", "d">>

HighRisk == <<"h", "i", "g", "h">>

\* the characters the value class [^'\"\\s] of the pattern refuses: the two
\* quotes, the backslash and the letter s
ValueExcluded == {"'", "\"", "\\", "s"}

\* {8,} of the pattern
MinValueLen == 8

PwdKey == <<"p", "w", "d", "=">>

\* how many characters of line, from position i on, the value class takes
RECURSIVE RunLength(_, _)
RunLength(line, i) ==
    IF i > Len(line) \/ line[i] \in ValueExcluded THEN 0
    ELSE 1 + RunLength(line, i + 1)

\* match.group(0) of re.finditer(pattern, line): << >> when nothing matches
password_match(line) ==
    LET starts == {i \in 1..(Len(line) - Len(PwdKey)) :
                      /\ SubSeq(line, i, i + Len(PwdKey) - 1) = PwdKey
                      /\ RunLength(line, i + Len(PwdKey)) >= MinValueLen}
    IN  IF starts = {} THEN << >>
        ELSE LET i == CHOOSE s \in starts : \A o \in starts : s <= o
             IN  << SubSeq(line, i,
                           i + Len(PwdKey) - 1
                             + RunLength(line, i + Len(PwdKey))) >>

Placeholders ==
    {<<"Y", "O", "U", "R", "_", "A", "P", "I", "_", "K", "E", "Y">>,
     <<"Y", "O", "U", "R", "_", "S", "E", "C", "R", "E", "T">>,
     <<"y", "o", "u", "r", "-", "s", "e", "c", "r", "e", "t", "-", "k", "e", "y">>,
     <<"E", "X", "A", "M", "P", "L", "E", "_", "K", "E", "Y">>,
     <<"S", "A", "M", "P", "L", "E", "_", "T", "O", "K", "E", "N">>}

ImportWords ==
    {<<"i", "m", "p", "o", "r", "t">>,
     <<"f", "r", "o", "m">>,
     <<"r", "e", "q", "u", "i", "r", "e">>,
     <<"i", "n", "c", "l", "u", "d", "e">>}

_is_likely_false_positive(line, matched_text) ==
    \/ /\ \/ Has(Lower(line), <<"k", "e", "y">>)
          \/ Has(Lower(line), <<"t", "o", "k", "e", "n">>)
          \/ Has(Lower(line), <<"s", "e", "c", "r", "e", "t">>)
       /\ \/ StartsWith(LStrip(line), <<"#">>)
          \/ StartsWith(LStrip(line), <<"/", "/">>)
          \/ StartsWith(LStrip(line), <<"/", "*">>)
       /\ Len(matched_text) < 16
    \/ \E w \in ImportWords : StartsWith(LStrip(line), w)
    \/ /\ Has(matched_text, <<"/", "/">>)
       /\ \/ Has(matched_text, <<"h", "t", "t", "p", ":", "/", "/">>)
          \/ Has(matched_text, <<"h", "t", "t", "p", "s", ":", "/", "/">>)
    \/ \E p \in Placeholders : Has(matched_text, p)
    \/ /\ \E i \in 2..(Len(line) - Len(matched_text)) :
             /\ SubSeq(line, i, i + Len(matched_text) - 1) = matched_text
             /\ line[i - 1] \notin WordChars
             /\ line[i + Len(matched_text)] \notin WordChars
       /\ ~Has(line, <<"=">>)

MaskLimit == 8

MaskKeep == 4

Stars == <<"*", "*", "*", "*">>

_mask_secret(secret) ==
    IF Len(secret) <= MaskLimit THEN Stars
    ELSE SubSeq(secret, 1, MaskKeep) \o Stars
            \o SubSeq(secret, Len(secret) - MaskKeep + 1, Len(secret))

\* _scan_for_secrets(content, file_path), content a sequence of lines
RECURSIVE ScanLines(_, _, _)
ScanLines(lines, i, file_path) ==
    IF i > Len(lines) THEN << >>
    ELSE LET m == password_match(lines[i])
             here ==
                 IF m = << >> \/ _is_likely_false_positive(lines[i], m[1])
                 THEN << >>
                 ELSE << [file            |-> file_path,
                          line            |-> i,
                          type            |-> PasswordType,
                          risk            |-> HighRisk,
                          matched_pattern |-> PasswordPattern,
                          matched_value   |-> _mask_secret(m[1])] >>
         IN  here \o ScanLines(lines, i + 1, file_path)

_scan_for_secrets(content, file_path) == ScanLines(content, 1, file_path)

exclude_patterns ==
    {<<"n", "o", "d", "e", "_", "m", "o", "d", "u", "l", "e", "s">>,
     <<"v", "e", "n", "v">>,
     <<".", "g", "i", "t">>,
     <<"_", "_", "p", "y", "c", "a", "c", "h", "e", "_", "_">>,
     <<"b", "u", "i", "l", "d">>,
     <<"d", "i", "s", "t">>,
     <<"*", ".", "m", "i", "n", ".", "j", "s">>,
     <<"v", "e", "n", "d", "o", "r">>,
     <<"*", ".", "s", "v", "g">>,
     <<"*", ".", "p", "n", "g">>,
     <<"*", ".", "j", "p", "g">>,
     <<"*", ".", "j", "p", "e", "g">>,
     <<"*", ".", "g", "i", "f">>,
     <<"*", ".", "i", "c", "o">>,
     <<"*", ".", "p", "d", "f">>,
     <<"p", "a", "c", "k", "a", "g", "e", "-", "l", "o", "c", "k", ".", "j", "s", "o", "n">>,
     <<"y", "a", "r", "n", ".", "l", "o", "c", "k">>}

sensitive_files ==
    {<<".", "e", "n", "v">>,
     <<".", "e", "n", "v", ".", "l", "o", "c", "a", "l">>,
     <<".", "e", "n", "v", ".", "d", "e", "v", "e", "l", "o", "p", "m", "e", "n", "t">>,
     <<".", "e", "n", "v", ".", "p", "r", "o", "d", "u", "c", "t", "i", "o", "n">>,
     <<"c", "r", "e", "d", "e", "n", "t", "i", "a", "l", "s", ".", "j", "s", "o", "n">>,
     <<"s", "e", "c", "r", "e", "t", "_", "k", "e", "y">>,
     <<"i", "d", "_", "r", "s", "a">>,
     <<"i", "d", "_", "d", "s", "a">>,
     <<"c", "o", "n", "f", "i", "g", ".", "j", "s", "o", "n">>,
     <<"s", "e", "t", "t", "i", "n", "g", "s", ".", "j", "s", "o", "n">>,
     <<"a", "p", "p", "l", "i", "c", "a", "t", "i", "o", "n", ".", "p", "r", "o", "p", "e", "r", "t", "i", "e", "s">>,
     <<"a", "p", "p", "l", "i", "c", "a", "t", "i", "o", "n", ".", "y", "m", "l">>,
     <<"w", "p", "-", "c", "o", "n", "f", "i", "g", ".", "p", "h", "p">>,
     <<"c", "o", "n", "f", "i", "g", ".", "p", "h", "p">>,
     <<"s", "e", "c", "r", "e", "t", "s", ".", "y", "m", "l">>}

sensitive_extensions ==
    {<<".", "p", "e", "m">>,
     <<".", "k", "e", "y">>,
     <<".", "p", "1", "2">>,
     <<".", "p", "f", "x">>,
     <<".", "k", "e", "y", "s", "t", "o", "r", "e">>,
     <<".", "j", "k", "s">>}

text_extensions ==
    {<<".", "t", "x", "t">>,
     <<".", "m", "d">>,
     <<".", "j", "s", "o", "n">>,
     <<".", "y", "a", "m", "l">>,
     <<".", "y", "m", "l">>,
     <<".", "x", "m", "l">>,
     <<".", "c", "s", "v">>,
     <<".", "j", "s">>,
     <<".", "j", "s", "x">>,
     <<".", "t", "s">>,
     <<".", "t", "s", "x">>,
     <<".", "p", "y">>,
     <<".", "r", "b">>,
     <<".", "p", "h", "p">>,
     <<".", "j", "a", "v", "a">>,
     <<".", "c">>,
     <<".", "c", "p", "p">>,
     <<".", "h">>,
     <<".", "c", "s">>,
     <<".", "g", "o">>,
     <<".", "r", "s">>,
     <<".", "s", "h">>,
     <<".", "b", "a", "t">>,
     <<".", "h", "t", "m", "l">>,
     <<".", "h", "t", "m">>,
     <<".", "c", "s", "s">>,
     <<".", "s", "c", "s", "s">>,
     <<".", "l", "e", "s", "s">>,
     <<".", "c", "o", "n", "f">>,
     <<".", "c", "f", "g">>,
     <<".", "i", "n", "i">>,
     <<".", "p", "r", "o", "p", "e", "r", "t", "i", "e", "s">>,
     <<".", "e", "n", "v">>,
     <<".", "g", "i", "t", "i", "g", "n", "o", "r", "e">>,
     <<".", "d", "o", "c", "k", "e", "r", "i", "g", "n", "o", "r", "e">>,
     <<".", "t", "r", "a", "v", "i", "s", ".", "y", "m", "l">>,
     <<".", "g", "i", "t", "l", "a", "b", "-", "c", "i", ".", "y", "m", "l">>,
     <<".", "g", "i", "t", "h", "u", "b">>,
     <<".", "e", "s", "l", "i", "n", "t", "r", "c">>,
     <<".", "b", "a", "b", "e", "l", "r", "c">>}

\* os.path.splitext(name)[1]: from the last dot on, unless that dot leads
\* the name
SplitExt(name) ==
    LET dots == {i \in 2..Len(name) : name[i] = "."}
    IN  IF dots = {} THEN << >>
        ELSE SubSeq(name, CHOOSE d \in dots : \A o \in dots : o <= d,
                    Len(name))

\* _is_text_file: a known extension, or no extension and mostly ASCII bytes
\* (the files of the model are ASCII)
_is_text_file(name) ==
    SplitExt(name) \in text_extensions \/ SplitExt(name) = << >>

IsSensitive(name) ==
    \/ Lower(name) \in {Lower(f) : f \in sensitive_files}
    \/ \E ext \in sensitive_extensions : EndsWith(Lower(name), ext)

\* _hash_file: the md5 of the content; no two contents of the model collide,
\* so the content stands for its digest
_hash_file(file) == file.content

\* the files a repository may hold: a name and its lines
RepoNames == { <<"a", "p", "p", ".", "p", "y">>, <<".", "e", "n", "v">> }

RepoLines ==
    { <<"p", "w", "d", "=", "h", "u", "n", "t", "e", "r", "2", "!", "x">>,
      <<"p", "w", "d", "=", "*", "*", "*", "*", "a", "b", "c", "d">>,
      <<"p", "w", "d", "=", "a", "b", "c", "d">>,
      <<"p", "w", "d", "=", "a", "b", "c", "d", "e", "f", "g", "s", "x">>,
      <<"#", "K", "E", "Y", " ", "p", "w", "d", "=", "a", "b", "c", "d", "e",
        "f", "g", "h">>,
      <<"x", "=", "1">> }

RepoFile(name, line) == [name |-> name, content |-> <<line>>]

RepoFiles == {RepoFile(n, l) : n \in RepoNames, l \in RepoLines}

MaxCacheEntries == 2

\* _check_cache(file_hash): << >> is None
_check_cache(file_hash) ==
    LET hits == {e \in secret_cache : e.hash = file_hash}
    IN  IF hits = {} THEN << >> ELSE << CHOOSE e \in hits : TRUE >>

SensitiveEntry(name) ==
    [file |-> name, risk |-> HighRisk, reason |-> "Sensitive file by name or extension"]

CountRisk(findings, risk) ==
    Cardinality({i \in DOMAIN findings : findings[i].risk = risk})

\* the result dictionary without line 229: the sensitive files are not
\* added to high_risk_secrets
AnalysisResult_findings_only(secrets_found, sensitive_files_found, files_scanned, total_files) ==
    LET any == secrets_found # << >> \/ sensitive_files_found # << >>
        critical == CountRisk(secrets_found, <<"c", "r", "i", "t", "i", "c", "a", "l">>)
        high == CountRisk(secrets_found, HighRisk)
        medium == CountRisk(secrets_found, <<"m", "e", "d", "i", "u", "m">>)
    IN  [secrets_found       |-> any,
         total_secrets       |-> IF any THEN Len(secrets_found)
                                             + Len(sensitive_files_found)
                                 ELSE 0,
         critical_secrets    |-> IF any THEN critical ELSE 0,
         high_risk_secrets   |-> IF any THEN high ELSE 0,
         medium_risk_secrets |-> IF any THEN medium ELSE 0,
         low_risk_secrets    |-> IF any THEN Len(secrets_found) - critical
                                             - high - medium
                                 ELSE 0,
         findings            |-> IF any THEN secrets_found ELSE << >>,
         sensitive_files     |-> IF any THEN sensitive_files_found ELSE << >>,
         files_scanned       |-> files_scanned,
         total_files         |-> total_files]

\* the result dictionary analyze_repo builds from what it collected
AnalysisResult(secrets_found, sensitive_files_found, files_scanned, total_files) ==
    LET any == secrets_found # << >> \/ sensitive_files_found # << >>
        critical == CountRisk(secrets_found, <<"c", "r", "i", "t", "i", "c", "a", "l">>)
        high == CountRisk(secrets_found, HighRisk)
        medium == CountRisk(secrets_found, <<"m", "e", "d", "i", "u", "m">>)
    IN  [secrets_found       |-> any,
         total_secrets       |-> IF any THEN Len(secrets_found)
                                             + Len(sensitive_files_found)
                                 ELSE 0,
         critical_secrets    |-> IF any THEN critical ELSE 0,
         high_risk_secrets   |-> IF any THEN high + Len(sensitive_files_found)
                                 ELSE 0,
         medium_risk_secrets |-> IF any THEN medium ELSE 0,
         low_risk_secrets    |-> IF any THEN Len(secrets_found) - critical
                                             - high - medium
                                 ELSE 0,
         findings            |-> IF any THEN secrets_found ELSE << >>,
         sensitive_files     |-> IF any THEN sensitive_files_found ELSE << >>,
         files_scanned       |-> files_scanned,
         total_files         |-> total_files]

SecretInit ==
    /\ repo_file \in RepoFiles
    /\ secret_cache = {}
    /\ secret_results = << >>

\* the repository changes between two scans
write_repo_file(name, line) ==
    /\ repo_file' = RepoFile(name, line)
    /\ UNCHANGED <<secret_cache, secret_results>>
    /\ SecretFrame

\* analyze_repo(repo_path) over the one file of the repository
analyze_repo ==
    LET name == repo_file.name
        skipped == \E p \in exclude_patterns : Has(name, p)
        sensitive == IF IsSensitive(name) THEN << SensitiveEntry(name) >>
                     ELSE << >>
        cached == _check_cache(_hash_file(repo_file))
        file_secrets == _scan_for_secrets(repo_file.content, name)
    IN  /\ SecretFrame
        /\ UNCHANGED repo_file
        /\ IF skipped
           THEN /\ secret_results' = << AnalysisResult(<< >>, << >>, 0, 1) >>
                /\ UNCHANGED secret_cache
           ELSE IF ~_is_text_file(name)
           THEN /\ secret_results' = << AnalysisResult(<< >>, sensitive, 0, 1) >>
                /\ UNCHANGED secret_cache
           ELSE IF cached # << >>
           THEN /\ secret_results' =
                      << AnalysisResult(cached[1].secrets,
                                        sensitive \o cached[1].sensitive_files,
                                        1, 1) >>
                /\ UNCHANGED secret_cache
           ELSE /\ Cardinality(secret_cache) < MaxCacheEntries
                /\ secret_results' =
                      << AnalysisResult(file_secrets, sensitive, 1, 1) >>
                /\ secret_cache' = secret_cache \cup
                      {[hash            |-> _hash_file(repo_file),
                        secrets         |-> file_secrets,
                        sensitive_files |-> sensitive]}

\* the cache directory is emptied
clear_cache ==
    /\ secret_cache # {}
    /\ secret_cache' = {}
    /\ UNCHANGED <<repo_file, secret_results>>
    /\ SecretFrame

SecretStep ==
    \/ \E n \in RepoNames, l \in RepoLines : write_repo_file(n, l)
    \/ analyze_repo
    \/ clear_cache

(***************************************************************************)
(* secret_analyzer.py: get_risk_score                                      *)
(***************************************************************************)
\* get_risk_score without the 0.8 factor for critical secrets
get_risk_score_flat(results) ==
    IF results = << >> \/ ~results[1].secrets_found THEN 1000
    ELSE LET r == results[1]
             weighted_count == r.critical_secrets * 1000
                                 + r.high_risk_secrets * 700
                                 + r.medium_risk_secrets * 400
                                 + r.low_risk_secrets * 100
             scanned == Max(1, r.files_scanned)
         IN  Max(0, 1000 - Min(1000, (weighted_count * 5) \div scanned))

\* get_risk_score(results), results << >> for an empty dictionary
get_risk_score(results) ==
    IF results = << >> \/ ~results[1].secrets_found THEN 1000
    ELSE LET r == results[1]
             weighted_count == r.critical_secrets * 1000
                                 + r.high_risk_secrets * 700
                                 + r.medium_risk_secrets * 400
                                 + r.low_risk_secrets * 100
             scanned == Max(1, r.files_scanned)
             score == Max(0, 1000 - Min(1000, (weighted_count * 5) \div scanned))
         IN  IF weighted_count = 0 THEN 1000
             ELSE IF r.critical_secrets > 0 THEN (score * 8) \div 10
             ELSE score

(***************************************************************************)
(* core.py: ValidationResult and DevPostValidator.validate_project         *)
(*                                                                         *)
(* An empty dictionary is << >> and a filled one is << d >>; a list that   *)
(* is only counted is its length.  validation_end is the number of times   *)
(* timestamps["validation_end"] has been set.                              *)
(***************************************************************************)
Item(priority, about) == [priority |-> priority, about |-> about]

ValidationResultInit ==
    [github_results              |-> << >>,
     devpost_results             |-> << >>,
     ai_detection_results        |-> NoFindings,
     plagiarism_results          |-> << >>,
     rule_violations             |-> 0,
     code_complexity_results     |-> << >>,
     commit_analysis_results     |-> << >>,
     technology_analysis_results |-> << >>,
     team_analysis_results       |-> << >>,
     secret_analysis_results     |-> << >>,
     created_during_hackathon    |-> FALSE,
     failures                    |-> << >>,
     warnings                    |-> << >>,
     passes                      |-> << >>,
     validation_end              |-> 0,
     metrics                     |-> << >>,
     score_weights               |-> << >>,
     scores                      |-> ValidationScoreInit,
     report                      |-> << >>]

add_failure(r, priority, about) ==
    [r EXCEPT !.failures = Append(@, Item(priority, about))]

add_warning(r, priority, about) ==
    [r EXCEPT !.warnings = Append(@, Item(priority, about))]

add_pass(r, priority, about) ==
    [r EXCEPT !.passes = Append(@, Item(priority, about))]

complete_validation(r) == [r EXCEPT !.validation_end = @ + 1]

\* get_validation_duration sets validation_end when it is still None
get_validation_duration(r) ==
    IF r.validation_end = 0 THEN complete_validation(r) ELSE r

\* result.report = self._generate_report(result): the summary it holds, and
\* the call of get_validation_duration it makes
_generate_report(r) ==
    LET timed == get_validation_duration(r)
    IN  [timed EXCEPT !.report =
            << [category       |-> r.scores.category,
                overall_score  |-> r.scores.overall_score,
                warnings_count |-> Len(r.warnings),
                failures_count |-> Len(r.failures),
                passes_count   |-> Len(r.passes),
                secret_security |-> r.scores.secret_security_score] >>]

\* the hackathon configurations set_hackathon_config is given: ConfigData
\* records with the further fields validate_project reads
HackathonConfig(weights, thresholds, features, allow_ai_tools, required, disallowed) ==
    [score_weights           |-> weights,
     validation_thresholds   |-> thresholds,
     validation_features     |-> features,
     report_settings         |-> [format |-> "html"],
     allow_ai_tools          |-> allow_ai_tools,
     required_technologies   |-> required,
     disallowed_technologies |-> disallowed]

\* analyze_team_composition off, everything else on
FeaturesNoTeam ==
    [ValidationFeatures(TRUE) EXCEPT !.analyze_team_composition = FALSE]

ProjectConfigs ==
    { HackathonConfig(DefaultWeights, DefaultThresholds,
                      ValidationFeatures(TRUE), FALSE, {}, {}),
      HackathonConfig(DefaultWeights, DefaultThresholds,
                      FeaturesNoTeam, TRUE, {"python", "rust"}, {"php"}),
      HackathonConfig(TwoWeights(1500, -500), DefaultThresholds,
                      FeaturesNoTeam, FALSE, {}, {}),
      HackathonConfig(TwoWeights(-500, 1500), DefaultThresholds,
                      ValidationFeatures(FALSE), FALSE, {}, {}) }

\* the arguments of a call and the validator it is made on
Call(has_token, config, devpost_url, analyze_secrets) ==
    [has_token       |-> has_token,
     config          |-> config,
     devpost_url     |-> devpost_url,
     analyze_secrets |-> analyze_secrets]

NoCall == Call(FALSE, << >>, FALSE, FALSE)

\* thresholds, weights and features as validate_project picks them
CallThresholds ==
    IF call.config = << >> THEN DefaultThresholds
    ELSE call.config[1].validation_thresholds

CallWeights ==
    IF call.config = << >> THEN DefaultWeights
    ELSE call.config[1].score_weights

CallFeatures ==
    IF call.config = << >> THEN ValidationFeatures(TRUE)
    ELSE call.config[1].validation_features

\* the locals of validate_project: temp_dir ("none" before mkdtemp), ai_score,
\* the exception on its way to the except clause, the analyzers that ran,
\* whether _calculate_scores ran, and the statement of the try block that
\* raised ("none" while none did)
Local(temp_dir, ai_score, exc, ran, scored) ==
    [temp_dir |-> temp_dir, ai_score |-> ai_score, exc |-> exc, ran |-> ran,
     scored |-> scored, raised |-> "none"]

VpInit ==
    /\ pc = "idle"
    /\ call = NoCall
    /\ local = Local("none", 0, FALSE, {}, FALSE)
    /\ result = ValidationResultInit

\* the stages of the try block, in order, and what enables each
StageOrder ==
    <<"ai", "complexity", "technology", "rules", "commits", "secrets">>

StageEnabled(stage) ==
    CASE stage = "complexity" -> CallFeatures.analyze_code_complexity
      [] stage = "technology" -> CallFeatures.analyze_technology_stack
      [] stage = "commits"    -> CallFeatures.analyze_commit_patterns
      [] stage = "secrets"    -> call.analyze_secrets
                                    /\ CallFeatures.detect_security_issues
      [] OTHER                -> TRUE

RECURSIVE StageFrom(_)
StageFrom(i) ==
    IF i > Len(StageOrder) THEN "cleanup"
    ELSE IF StageEnabled(StageOrder[i]) THEN StageOrder[i]
    ELSE StageFrom(i + 1)

StageIndex(stage) == CHOOSE i \in DOMAIN StageOrder : StageOrder[i] = stage

\* where control goes after a stage returned
AfterStage(stage) == StageFrom(StageIndex(stage) + 1)

\* where control goes after the finally clause
AfterCleanup == IF call.devpost_url THEN "devpost" ELSE "calculate_scores"

\* a stage of the try block ran and stored out in field
StageDone(stage, r) ==
    /\ pc = stage
    /\ result' = r
    /\ local' = [local EXCEPT !.ran = @ \cup {stage}]
    /\ pc' = AfterStage(stage)
    /\ UNCHANGED call
    /\ VpFrame

\* a stage of the try block raised
StageRaised(stage) ==
    /\ pc = stage
    /\ local' = [local EXCEPT !.exc = TRUE, !.ran = @ \cup {stage},
                              !.raised = stage]
    /\ pc' = "cleanup"
    /\ UNCHANGED <<call, result>>
    /\ VpFrame

\* validate_project up to the call of get_repository
validate_project(has_token, config, devpost_url, analyze_secrets) ==
    /\ pc = "idle"
    /\ call' = Call(has_token, config, devpost_url, analyze_secrets)
    /\ UNCHANGED local
    /\ IF ~has_token
       THEN /\ result' = add_failure(ValidationResultInit, "CRITICAL", "token")
            /\ pc' = "returned"
       ELSE /\ result' = IF config = << >>
                         THEN add_warning(ValidationResultInit, "MEDIUM", "config")
                         ELSE ValidationResultInit
            /\ pc' = "get_repository"
    /\ VpFrame

\* what get_repository and analyze_repository give for a repository
RepoError == [status |-> "error"]

RepoSuccess(created, total, during) ==
    [status                   |-> "success",
     created_during_hackathon |-> created,
     total_commits            |-> total,
     commits_during_hackathon |-> during,
     warning_flags            |-> IF created THEN 0 ELSE 1]

RepoResults ==
    {RepoError} \cup
    {RepoSuccess(c, n[1], n[2]) : c \in BOOLEAN, n \in {<<0, 0>>, <<4, 4>>}}

\* repo_result.get("status") != "success"
fetch_failed(repo_result) == repo_result.status # "success"

\* get_repository, analyze_repository and mkdtemp. analyze_repository gives
\* a dictionary with "error" only for a repo_result that is no success, so
\* the second early return is never taken.
fetch_repository(repo_result) ==
    /\ pc = "get_repository"
    /\ UNCHANGED call
    /\ IF fetch_failed(repo_result)
       THEN LET failed == add_failure(result, "CRITICAL", "repository")
                errored == [failed EXCEPT !.github_results = << RepoError >>]
            IN  /\ result' = complete_validation(_generate_report(errored))
                /\ pc' = "returned"
                /\ UNCHANGED local
       ELSE /\ result' = [result EXCEPT
                              !.github_results = << repo_result >>,
                              !.created_during_hackathon =
                                  repo_result.created_during_hackathon]
            /\ local' = [local EXCEPT !.temp_dir = "exists"]
            /\ pc' = "clone"
    /\ VpFrame

\* git.Repo.clone_from(repo["clone_url"], temp_dir)
clone_from(ok) ==
    /\ pc = "clone"
    /\ UNCHANGED <<call, result>>
    /\ IF ok
       THEN /\ pc' = StageFrom(1)
            /\ UNCHANGED local
       ELSE /\ pc' = "cleanup"
            /\ local' = [local EXCEPT !.exc = TRUE, !.raised = "clone"]
    /\ VpFrame

AiInputs ==
    {NoFindings,
     [NoFindings EXCEPT !.high = 1],
     [NoFindings EXCEPT !.high = 7, !.medium = 4]}

run_ai(findings) ==
    /\ pc = "ai"
    /\ result' = [result EXCEPT !.ai_detection_results = findings]
    /\ local' = [local EXCEPT !.ai_score = ai_score_of(findings),
                              !.ran = @ \cup {"ai"}]
    /\ pc' = AfterStage("ai")
    /\ UNCHANGED call
    /\ VpFrame

ComplexityInputs == {3, 20}

run_complexity(average_complexity) ==
    StageDone("complexity",
        [result EXCEPT !.code_complexity_results =
            << [average_complexity |-> average_complexity] >>])

TechnologyInputs == {{}, {"python", "php"}}

\* TechnologyAnalyzer.analyze_repo(temp_dir): it is given no requirements,
\* so missing_required and forbidden_used stay empty
technology_analyze_repo(detected) ==
    [detected_technologies |-> detected,
     technology_diversity  |-> Min(1000, Cardinality(detected) * 100),
     missing_required      |-> {},
     forbidden_used        |-> {}]

\* TechnologyAnalyzer.check_tech_requirements(detected, required, disallowed)
check_tech_requirements(detected_techs, required_techs, disallowed_techs) ==
    LET missing == required_techs \ detected_techs
        forbidden == detected_techs \cap disallowed_techs
        required_compliance ==
            IF required_techs # {}
            THEN (1000 * (Cardinality(required_techs) - Cardinality(missing)))
                    \div Cardinality(required_techs)
            ELSE 1000
        forbidden_penalty ==
            IF disallowed_techs # {} /\ forbidden # {}
            THEN (1000 * Cardinality(forbidden)) \div Cardinality(disallowed_techs)
            ELSE 0
    IN  [missing_required |-> missing,
         forbidden_used   |-> forbidden,
         compliance_score |->
             (required_compliance * (1000 - forbidden_penalty)) \div 1000]

run_technology(detected) ==
    StageDone("technology",
        [result EXCEPT !.technology_analysis_results =
            << technology_analyze_repo(detected) >>])

RuleViolationInputs == {0, 3, 12}

run_rules(violations) ==
    StageDone("rules", [result EXCEPT !.rule_violations = violations])

CommitAnalysis(suspicious, message_quality, distribution, frequency) ==
    [suspicious_patterns       |-> suspicious,
     message_quality           |-> message_quality,
     commit_distribution_score |-> distribution,
     frequency_score           |-> frequency]

CommitInputs ==
    {CommitAnalysis(FALSE, 800, 1000, 500), CommitAnalysis(TRUE, 500, 200, 500)}

run_commits(analysis) ==
    StageDone("commits",
        [result EXCEPT !.commit_analysis_results = << analysis >>])

\* git.Repo(temp_dir) or analyze_commits raises (a clone without commits)
run_commits_raises == StageRaised("commits")

SecretSummary(critical, high, files_scanned) ==
    [secrets_found       |-> critical + high > 0,
     total_secrets       |-> critical + high,
     critical_secrets    |-> critical,
     high_risk_secrets   |-> high,
     medium_risk_secrets |-> 0,
     low_risk_secrets    |-> 0,
     files_scanned       |-> files_scanned]

SecretInputs ==
    {SecretSummary(0, 0, 10), SecretSummary(0, 1, 10), SecretSummary(1, 0, 1)}

run_secrets(summary) ==
    LET stored == [result EXCEPT
                      !.secret_analysis_results = << summary >>,
                      !.scores.secret_security_score =
                          get_risk_score(<< summary >>)]
        warned == IF summary.secrets_found
                  THEN add_warning(stored,
                           IF summary.critical_secrets > 0
                           THEN "HIGH" ELSE "MEDIUM", "secrets")
                  ELSE stored
        failed == IF summary.secrets_found
                     /\ summary.critical_secrets > 0
                  THEN add_failure(warned, "CRITICAL", "secrets")
                  ELSE warned
    IN  StageDone("secrets", failed)

\* the except clause without the finally clause: temp_dir is left behind
cleanup_keeps_dir ==
    /\ pc = "cleanup"
    /\ result' = IF local.exc THEN add_failure(result, "HIGH", "clone")
                 ELSE result
    /\ local' = [local EXCEPT !.exc = FALSE]
    /\ pc' = AfterCleanup
    /\ UNCHANGED call
    /\ VpFrame

\* the except and finally clauses of the try block
cleanup ==
    /\ pc = "cleanup"
    /\ result' = IF local.exc THEN add_failure(result, "HIGH", "clone")
                 ELSE result
    /\ local' = [local EXCEPT !.temp_dir = "removed", !.exc = FALSE]
    /\ pc' = AfterCleanup
    /\ UNCHANGED call
    /\ VpFrame

DevpostResults(probability, duplicate) ==
    [ai_content_probability |-> probability,
     duplicate_submission   |-> duplicate,
     team_members           |-> 2]

DevpostInputs == {DevpostResults(0, FALSE), DevpostResults(800, TRUE)}

PlagiarismResults(size_compliant) ==
    [team_compliance |-> [size_compliant |-> size_compliant]]

TeamAnalysis ==
    [contribution_imbalance |-> FALSE, github_team_mismatch |-> FALSE]

\* the devpost_url branch: submission, plagiarism check and team analysis
analyze_devpost(devpost_results) ==
    /\ pc = "devpost"
    /\ result' = [result EXCEPT
          !.devpost_results = << devpost_results >>,
          !.plagiarism_results =
              IF CallFeatures.check_plagiarism
              THEN << PlagiarismResults(TRUE) >> ELSE @,
          !.team_analysis_results =
              IF CallFeatures.analyze_team_composition
              THEN << TeamAnalysis >> ELSE @]
    /\ pc' = "calculate_scores"
    /\ UNCHANGED <<call, local>>
    /\ VpFrame

\* 100 * exp(-0.1 * n) in thousandths of a point, for the counts used
ExpDecay(n) ==
    CASE n = 0 -> 100000
      [] n = 3 -> 74082
      [] n = 12 -> 30119

ScoreTimeline(r) ==
    LET g == r.github_results[1]
        created == IF r.created_during_hackathon THEN 60000 ELSE 0
        ratio == IF g.total_commits > 0
                 THEN (30000 * g.commits_during_hackathon) \div g.total_commits
                 ELSE 0
        spread == IF r.commit_analysis_results # << >>
                  THEN 10 * r.commit_analysis_results[1].commit_distribution_score
                  ELSE 0
    IN  created + ratio + spread

ScoreRuleCompliance(r) ==
    IF r.rule_violations > 0
    THEN Max(0, 100000 - Min(100000, 100000 - ExpDecay(r.rule_violations)))
    ELSE 100000

ScorePlagiarism(r) ==
    IF r.devpost_results = << >> THEN 100000
    ELSE LET d == r.devpost_results[1]
             base == Max(0, 100000 - d.ai_content_probability * 100)
         IN  IF d.duplicate_submission THEN Max(0, base - 50000) ELSE base

ScoreComplexity(r) ==
    IF r.code_complexity_results = << >> THEN 85000
    ELSE LET avg == r.code_complexity_results[1].average_complexity
         IN  IF avg < 5 THEN 60000 + avg * 5000
             ELSE IF avg <= 15 THEN 85000 + (15 - avg) * 1500
             ELSE IF avg <= 25 THEN 85000 - (avg - 15) * 2500
             ELSE 60000 - Min(60000, (avg - 25) * 4000)

ScoreTechnology(r, config) ==
    IF r.technology_analysis_results = << >> THEN 80000
    ELSE LET t == r.technology_analysis_results[1]
             required == IF config = << >> THEN {}
                         ELSE config[1].required_technologies
             disallowed == IF config = << >> THEN {}
                           ELSE config[1].disallowed_technologies
             complied ==
                 IF required # {}
                 THEN ((Cardinality(required) - Cardinality(t.missing_required))
                          * 100000) \div Cardinality(required)
                 ELSE 80000
             allowed ==
                 IF disallowed # {} /\ t.forbidden_used # {}
                 THEN Max(0, complied - 40000 * Cardinality(t.forbidden_used))
                 ELSE complied
         IN  Min(100000, allowed + t.technology_diversity * 10)

ScoreCommitQuality(r) ==
    IF r.commit_analysis_results = << >> THEN 75000
    ELSE LET c == r.commit_analysis_results[1]
             base == IF c.suspicious_patterns THEN 35000 ELSE 75000
             with_messages == (base * 6) \div 10 + c.message_quality * 40
             with_spread == (with_messages * 7) \div 10
                               + c.commit_distribution_score * 30
         IN  (with_spread * 8) \div 10 + c.frequency_score * 20

\* the weight map _calculate_scores derives when the secret scanner ran:
\* every weight of the config times 0.95 and the rest of 1.0 under
\* "secret_security", unless the config has such a weight already
SecretWeights(weights) ==
    IF "secret_security" \in DOMAIN weights THEN weights
    ELSE LET reduced == [k \in DOMAIN weights |-> (weights[k] * 95) \div 100]
         IN  [k \in DOMAIN weights \cup {"secret_security"} |->
                 IF k \in DOMAIN weights THEN reduced[k]
                 ELSE 1000 - SumValues(reduced)]

\* _calculate_scores(result, ai_score): << >> when it raises. With a team
\* analysis stored, the test "plagiarism_results" in result is applied to
\* a ValidationResult, which is no container: TypeError.
_calculate_scores(r, ai_score, config) ==
    IF r.team_analysis_results # << >> THEN << >>
    ELSE LET secrets ==
                 IF r.secret_analysis_results # << >>
                 THEN r.scores.secret_security_score * 100
                 ELSE 100000
             sub == [k \in Categories |->
                       CASE k = "timeline"          -> ScoreTimeline(r)
                         [] k = "code_authenticity" -> (1000 - ai_score) * 100
                         [] k = "rule_compliance"   -> ScoreRuleCompliance(r)
                         [] k = "plagiarism"        -> ScorePlagiarism(r)
                         [] k = "team_compliance"   -> 100000
                         [] k = "complexity"        -> ScoreComplexity(r)
                         [] k = "technology"        -> ScoreTechnology(r, config)
                         [] k = "commit_quality"    -> ScoreCommitQuality(r)]
             scored == [r EXCEPT !.scores.secret_security_score = secrets,
                                 !.scores.scores = sub,
                                 !.score_weights =
                                     IF r.secret_analysis_results # << >>
                                          /\ config # << >>
                                     THEN << SecretWeights(config[1].score_weights) >>
                                     ELSE @]
             timed == get_validation_duration(scored)
         IN  << [timed EXCEPT !.metrics =
                   << [ai_indicators_count   |-> CountFindings(r.ai_detection_results),
                       rule_violations_count |-> r.rule_violations] >>] >>

calculate_scores ==
    LET out == _calculate_scores(result, local.ai_score, call.config)
    IN  /\ pc = "calculate_scores"
        /\ UNCHANGED call
        /\ IF out = << >>
           THEN /\ pc' = "raised"
                /\ UNCHANGED <<result, local>>
           ELSE /\ pc' = "validate_results"
                /\ result' = out[1]
                /\ local' = [local EXCEPT !.scored = TRUE]
        /\ VpFrame

\* the checks of _validate_results, one operator per item it may add
RECURSIVE FlagWarnings(_, _)
FlagWarnings(r, n) ==
    IF n = 0 THEN r
    ELSE FlagWarnings(add_warning(r, "MEDIUM", "warning_flag"), n - 1)

CheckCreated(r) ==
    IF ~r.created_during_hackathon THEN add_failure(r, "HIGH", "created")
    ELSE add_pass(r, "HIGH", "created")

CheckCommits(r) ==
    IF r.github_results[1].commits_during_hackathon = 0
    THEN add_failure(r, "HIGH", "commits")
    ELSE add_pass(r, "MEDIUM", "commits")

CheckAi(r, config) ==
    IF config # << >> /\ ~config[1].allow_ai_tools
    THEN LET n == CountFindings(r.ai_detection_results)
         IN  IF n > 10 THEN add_failure(r, "HIGH", "ai")
             ELSE IF n > 0 THEN add_warning(r, "MEDIUM", "ai")
             ELSE add_pass(r, "MEDIUM", "ai")
    ELSE r

CheckRules(r) ==
    IF r.rule_violations > 10 THEN add_failure(r, "MEDIUM", "rules")
    ELSE IF r.rule_violations > 0 THEN add_warning(r, "LOW", "rules")
    ELSE add_pass(r, "LOW", "rules")

CheckRequired(r, config, features) ==
    IF features.analyze_technology_stack /\ config # << >>
         /\ config[1].required_technologies # {}
         /\ r.technology_analysis_results # << >>
    THEN IF r.technology_analysis_results[1].missing_required # {}
         THEN add_failure(r, "HIGH", "required_technologies")
         ELSE add_pass(r, "MEDIUM", "required_technologies")
    ELSE r

CheckDisallowed(r, config, features) ==
    IF features.analyze_technology_stack /\ config # << >>
         /\ config[1].disallowed_technologies # {}
         /\ r.technology_analysis_results # << >>
    THEN IF r.technology_analysis_results[1].forbidden_used # {}
         THEN add_failure(r, "HIGH", "disallowed_technologies")
         ELSE add_pass(r, "MEDIUM", "disallowed_technologies")
    ELSE r

CheckComplexity(r, features) ==
    IF features.analyze_code_complexity /\ r.code_complexity_results # << >>
    THEN LET avg == r.code_complexity_results[1].average_complexity
         IN  IF avg > 25 \/ avg < 5 THEN add_warning(r, "LOW", "complexity")
             ELSE r
    ELSE r

CheckCommitPatterns(r) ==
    IF r.commit_analysis_results = << >> THEN r
    ELSE LET c == r.commit_analysis_results[1]
             flagged == IF c.suspicious_patterns
                        THEN add_warning(r, "MEDIUM", "commit_patterns")
                        ELSE r
         IN  IF c.commit_distribution_score < 300
             THEN add_warning(flagged, "LOW", "commit_distribution")
             ELSE flagged

CheckTeam(r) ==
    IF r.team_analysis_results = << >> THEN r
    ELSE LET t == r.team_analysis_results[1]
             imbalance == IF t.contribution_imbalance
                          THEN add_warning(r, "LOW", "team_imbalance")
                          ELSE r
         IN  IF t.github_team_mismatch
             THEN add_warning(imbalance, "MEDIUM", "team_mismatch")
             ELSE imbalance

CheckDevpost(r) ==
    IF r.devpost_results = << >> THEN r
    ELSE LET d == r.devpost_results[1]
             written ==
                 IF d.ai_content_probability > 700
                 THEN add_failure(r, "MEDIUM", "devpost_ai")
                 ELSE IF d.ai_content_probability > 400
                 THEN add_warning(r, "LOW", "devpost_ai")
                 ELSE add_pass(r, "LOW", "devpost_ai")
         IN  IF d.duplicate_submission
             THEN add_failure(written, "HIGH", "duplicate_submission")
             ELSE written

CheckSecrets(r, features) ==
    IF features.detect_security_issues /\ r.secret_analysis_results # << >>
         /\ r.secret_analysis_results[1].secrets_found
    THEN LET s == r.secret_analysis_results[1]
         IN  IF s.critical_secrets > 0
             THEN add_failure(r, "CRITICAL", "secret_scan")
             ELSE IF s.high_risk_secrets > 0
             THEN add_warning(r, "HIGH", "secret_scan")
             ELSE IF s.total_secrets > 0
             THEN add_warning(r, "MEDIUM", "secret_scan")
             ELSE r
    ELSE r

_validate_results(r, config, features) ==
    LET r1 == FlagWarnings(r, r.github_results[1].warning_flags)
        r2 == CheckCommits(CheckCreated(r1))
        r3 == CheckRules(CheckAi(r2, config))
        r4 == CheckDisallowed(CheckRequired(r3, config, features),
                              config, features)
        r5 == CheckCommitPatterns(CheckComplexity(r4, features))
        r6 == CheckDevpost(CheckTeam(r5))
    IN  CheckSecrets(r6, features)

validate_results ==
    /\ pc = "validate_results"
    /\ result' = _validate_results(result, call.config, CallFeatures)
    /\ pc' = "finish"
    /\ UNCHANGED <<call, local>>
    /\ VpFrame

\* finish with the overall score taken under result.score_weights where
\* _calculate_scores has stored them
finish_with_stored_weights ==
    LET weights == IF result.score_weights # << >> THEN result.score_weights[1]
                   ELSE CallWeights
        weighed == calculate_overall_score(result.scores, weights)
        judged == determine_category(weighed, CallThresholds)
        scored == [result EXCEPT !.scores = judged]
    IN  /\ pc = "finish"
        /\ result' = complete_validation(_generate_report(scored))
        /\ pc' = "returned"
        /\ UNCHANGED <<call, local>>
        /\ VpFrame

\* calculate_overall_score, determine_category, _generate_report,
\* complete_validation and return
finish ==
    LET weighed == calculate_overall_score(result.scores, CallWeights)
        judged == determine_category(weighed, CallThresholds)
        scored == [result EXCEPT !.scores = judged]
    IN  /\ pc = "finish"
        /\ result' = complete_validation(_generate_report(scored))
        /\ pc' = "returned"
        /\ UNCHANGED <<call, local>>
        /\ VpFrame

VpStep ==
    \/ \E t \in BOOLEAN, c \in {<< >>} \cup {<< p >> : p \in ProjectConfigs},
          d \in BOOLEAN, s \in BOOLEAN : validate_project(t, c, d, s)
    \/ \E rr \in RepoResults : fetch_repository(rr)
    \/ \E ok \in BOOLEAN : clone_from(ok)
    \/ \E f \in AiInputs : run_ai(f)
    \/ \E a \in ComplexityInputs : run_complexity(a)
    \/ \E t \in TechnologyInputs : run_technology(t)
    \/ \E n \in RuleViolationInputs : run_rules(n)
    \/ \E a \in CommitInputs : run_commits(a)
    \/ run_commits_raises
    \/ \E s \in SecretInputs : run_secrets(s)
    \/ cleanup
    \/ \E d \in DevpostInputs : analyze_devpost(d)
    \/ calculate_scores
    \/ validate_results
    \/ finish

(***************************************************************************)
(* commit_analyzer.py                                                      *)
(*                                                                         *)
(* Times are whole hours since an epoch that falls on midnight, so the     *)
(* calendar day of t is t \div 24 and its hour t % 24.  A commit is its    *)
(* commit time and the number of lines it changed; commit messages are not *)
(* modelled.                                                               *)
(***************************************************************************)
MaxCommits == 3

HoursPerDay == 24

Commit(time, lines) == [time |-> time, lines |-> lines]

\* commit times before, inside and after the windows below
CommitTimes == {20, 24, 25, 27, 32, 40, 49, 71, 80}

CommitLines == {10, 2000}

Window(start_date, end_date) == [start_date |-> start_date, end_date |-> end_date]

\* one calendar day, two calendar days, and a window of no length
CommitWindows == {Window(24, 47), Window(24, 71), Window(24, 24)}

DayOf(t) == t \div HoursPerDay

HourOf(t) == t % HoursPerDay

\* start_date <= commit_time <= end_date
during_hackathon(t, w) == w.start_date <= t /\ t <= w.end_date

\* sorted(commit_dates) of the commits in log
RECURSIVE SortedDates(_)
SortedDates(log) ==
    IF log = {} THEN << >>
    ELSE LET first == CHOOSE c \in log : \A o \in log : c.time <= o.time
         IN  <<first.time>> \o SortedDates(log \ {first})

\* time_diffs of a sorted list
TimeDiffs(sorted) == [i \in 1..(Len(sorted) - 1) |-> sorted[i + 1] - sorted[i]]

\* the largest r with r * r <= x, for x below 10000
ISqrt(x) == CHOOSE r \in 0..100 : r * r <= x /\ x < (r + 1) * (r + 1)

\* statistics.stdev(time_diffs) / (hackathon_duration / len(commit_dates)),
\* inverted and cut at 1.0, in thousandths (rounded down to hundredths).
\* << >> when it raises: StatisticsError for fewer than two gaps,
\* ZeroDivisionError for a deviation of zero.
Evenness(diffs, duration, count) ==
    LET m == Len(diffs)
        total == SumValues(diffs)
        squares == SumValues([i \in DOMAIN diffs |-> diffs[i] * diffs[i]])
        \* the sample variance is num / den
        num == m * squares - total * total
        den == m * (m - 1)
    IN  IF m < 2 \/ num = 0 THEN << >>
        ELSE IF duration * duration * den >= count * count * num
        THEN << 1000 >>
        ELSE << 10 * ISqrt((10000 * duration * duration * den)
                              \div (count * count * num)) >>

\* _analyze_commit_distribution(commit_dates, start_date, end_date) over the
\* in-window commits: << score in thousandths >>, or << >> when it raises
_analyze_commit_distribution(commits, w) ==
    LET hackathon_duration == w.end_date - w.start_date
        day_buckets == {DayOf(c.time) - DayOf(w.start_date) : c \in commits}
        total_days == DayOf(w.end_date) - DayOf(w.start_date) + 1
        coverage_ratio == IF total_days > 0
                          THEN (1000 * Cardinality(day_buckets)) \div total_days
                          ELSE 0
        time_diffs == TimeDiffs(SortedDates(commits))
        evenness == Evenness(time_diffs, hackathon_duration, Cardinality(commits))
    IN  IF commits = {} THEN << 0 >>
        ELSE IF hackathon_duration <= 0 THEN << 1000 >>
        ELSE IF Cardinality(commits) <= 1 THEN << coverage_ratio >>
        ELSE IF evenness = << >> THEN << >>
        ELSE << Min(1000, (coverage_ratio * 7 + evenness[1] * 3) \div 10) >>

\* _analyze_commit_frequency(commit_dates, start_date, end_date)
_analyze_commit_frequency(log, w) ==
    LET days == (w.end_date - w.start_date) \div HoursPerDay + 1
        inside == {c \in log : during_hackathon(c.time, w)}
    IN  IF log = {} THEN 0
        ELSE IF days <= 0 THEN 500
        ELSE IF inside = {} THEN 0
        ELSE Min(1000, (1000 * Cardinality(inside)) \div (4 * days))

SuspiciousCommitSize == 1000

UnusualTimingHours == {0, 1, 2, 3, 4}

\* the dictionary analyze_commits starts from and returns for an empty log
CommitDefaults ==
    [total_commits             |-> 0,
     hackathon_commits         |-> 0,
     commit_distribution_score |-> 1000,
     suspicious_patterns       |-> FALSE,
     frequency_score           |-> 500]

\* analyze_commits(repo, start_date, end_date): << result >>, or << >> when
\* _analyze_commit_distribution raises
analyze_commits_of(log, w) ==
    LET inside == {c \in log : during_hackathon(c.time, w)}
        hackathon_commits == Cardinality(inside)
        unusual == {c \in log : HourOf(c.time) \in UnusualTimingHours}
        large == {c \in log : c.lines > SuspiciousCommitSize}
        distribution == IF hackathon_commits > 0
                        THEN _analyze_commit_distribution(inside, w)
                        ELSE << CommitDefaults.commit_distribution_score >>
    IN  IF log = {} THEN << CommitDefaults >>
        ELSE IF distribution = << >> THEN << >>
        ELSE << [total_commits             |-> Cardinality(log),
                 hackathon_commits         |-> hackathon_commits,
                 commit_distribution_score |-> distribution[1],
                 suspicious_patterns       |->
                     large # {} \/ 10 * Cardinality(unusual) > 3 * hackathon_commits,
                 frequency_score           |-> _analyze_commit_frequency(log, w)] >>

CommitInit ==
    /\ commit_log = {}
    /\ commit_result = << >>

\* a commit is pushed to the repository
git_commit(time, lines) ==
    /\ Cardinality(commit_log) < MaxCommits
    /\ Commit(time, lines) \notin commit_log
    /\ commit_log' = commit_log \cup {Commit(time, lines)}
    /\ UNCHANGED commit_result
    /\ CommitFrame

\* commit_analyzer.analyze_commits(repo_obj, start_date, end_date) on the
\* clone of the repository; what it gave is kept with the window it got
analyze_commits(w) ==
    /\ commit_result' = << [window |-> w, log |-> commit_log,
                            out |-> analyze_commits_of(commit_log, w)] >>
    /\ UNCHANGED commit_log
    /\ CommitFrame

CommitStep ==
    \/ \E t \in CommitTimes, l \in CommitLines : git_commit(t, l)
    \/ \E w \in CommitWindows : analyze_commits(w)

(***************************************************************************)
(* secret_analyzer.py: get_risk_score over the result dictionaries         *)
(* analyze_repo can hand it                                                *)
(***************************************************************************)
MaxSeverityCount == 2

FilesScanned == {0, 1, 10, 40}

RiskResults(found, critical, high, medium, low, files_scanned) ==
    [secrets_found       |-> found,
     total_secrets       |-> critical + high + medium + low,
     critical_secrets    |-> critical,
     high_risk_secrets   |-> high,
     medium_risk_secrets |-> medium,
     low_risk_secrets    |-> low,
     files_scanned       |-> files_scanned]

RiskInputs ==
    {RiskResults(found, c, h, m, l, f) :
        found \in BOOLEAN, c \in 0..MaxSeverityCount, h \in 0..MaxSeverityCount,
        m \in 0..MaxSeverityCount, l \in 0..MaxSeverityCount, f \in FilesScanned}

RiskInit ==
    /\ risk_results \in {<< r >> : r \in RiskInputs}
    /\ risk_score = << >>

\* secret_analyzer.get_risk_score(secret_results)
score_risk ==
    /\ risk_score' = << get_risk_score(risk_results) >>
    /\ UNCHANGED risk_results
    /\ RiskFrame

\* get_risk_score on a scan that gave nothing (an empty dictionary)
score_empty_scan ==
    /\ risk_results' = << >>
    /\ risk_score' = << get_risk_score(<< >>) >>
    /\ RiskFrame

RiskStep == score_risk \/ score_empty_scan

(***************************************************************************)
(* core.py: DevPostValidator.validate_urls                                 *)
(*                                                                         *)
(* A URL is what urlparse makes of it: the labels of its netloc and the    *)
(* number of segments of its path.  A call of validate_project is taken    *)
(* by its outcome: a result with a CRITICAL failure, a scored result, or   *)
(* the TypeError of _calculate_scores.                                     *)
(***************************************************************************)
MaxUrls == 3

Url(netloc, segments) == [netloc |-> netloc, segments |-> segments]

\* a repository, a GitHub profile page, a submission page, another site
Urls ==
    {Url(<<"github", "com">>, 2), Url(<<"github", "com">>, 1),
     Url(<<"myhack", "devpost", "com">>, 1), Url(<<"example", "com">>, 2)}

UrlLists == UNION {[1..n -> Urls] : n \in 0..MaxUrls}

\* parsed.netloc == "github.com" and the path has two segments or more
is_github_url(url) == url.netloc = <<"github", "com">> /\ url.segments >= 2

\* parsed.netloc.endswith("devpost.com")
is_devpost_url(url) ==
    /\ Len(url.netloc) >= 2
    /\ SubSeq(url.netloc, Len(url.netloc) - 1, Len(url.netloc))
          = <<"devpost", "com">>

\* extract_github_url(devpost_url): the repository link of the page, None
\* (<< >>) when the page cannot be fetched or holds no such link
extract_github_url(found_link) ==
    IF found_link THEN << Url(<<"github", "com">>, 2) >> ELSE << >>

\* the validator validate_urls is called on
BatchValidator(has_token, analyze_team_composition) ==
    [has_token |-> has_token,
     analyze_team_composition |-> analyze_team_composition]

\* validate_project(github_url, devpost_url) on that validator: early exits
\* give a failure result; with a submission page and team analysis on,
\* _calculate_scores raises TypeError
ProjectOutcome(validator, devpost_url, fetch_ok) ==
    IF ~validator.has_token \/ ~fetch_ok THEN "failure"
    ELSE IF devpost_url # << >> /\ validator.analyze_team_composition
    THEN "TypeError"
    ELSE "scored"

BatchInit ==
    /\ batch_validator \in
          {BatchValidator(t, f) : t \in BOOLEAN, f \in BOOLEAN}
    /\ batch_urls = << >>
    /\ batch_pos = 1
    /\ batch_results = << >>
    /\ batch_pc = "idle"

\* validate_urls(urls) up to its loop
validate_urls(urls) ==
    /\ batch_pc = "idle"
    /\ batch_urls' = urls
    /\ batch_pos' = 1
    /\ batch_results' = << >>
    /\ batch_pc' = IF urls = << >> THEN "returned" ELSE "loop"
    /\ UNCHANGED batch_validator
    /\ BatchFrame

\* one round of the loop, and the return after the last one
validate_url(found_link, fetch_ok) ==
    LET url == batch_urls[batch_pos]
        devpost_url == IF ~is_github_url(url) /\ is_devpost_url(url)
                       THEN << url >> ELSE << >>
        github_url == IF is_github_url(url) THEN << url >>
                      ELSE IF is_devpost_url(url)
                      THEN extract_github_url(found_link)
                      ELSE << >>
        outcome == ProjectOutcome(batch_validator, devpost_url, fetch_ok)
        last == batch_pos = Len(batch_urls)
    IN  /\ batch_pc = "loop"
        /\ UNCHANGED <<batch_urls, batch_validator>>
        /\ IF github_url = << >>
           THEN /\ UNCHANGED batch_results
                /\ batch_pos' = batch_pos + 1
                /\ batch_pc' = IF last THEN "returned" ELSE "loop"
           ELSE IF outcome = "TypeError"
           THEN /\ UNCHANGED <<batch_results, batch_pos>>
                /\ batch_pc' = "raised"
           ELSE /\ batch_results' =
                      Append(batch_results, [url |-> batch_pos, outcome |-> outcome])
                /\ batch_pos' = batch_pos + 1
                /\ batch_pc' = IF last THEN "returned" ELSE "loop"
        /\ BatchFrame

BatchStep ==
    \/ \E urls \in UrlLists : validate_urls(urls)
    \/ \E found_link \in BOOLEAN, fetch_ok \in BOOLEAN :
          validate_url(found_link, fetch_ok)

(***************************************************************************)
(* Specifications: one per component, the other components at rest         *)
(***************************************************************************)
RuleIdle ==
    /\ custom_rules = << >>
    /\ plugins = << >>
    /\ plugin_instances = << >>
    /\ rule_dir = RuleDir(FALSE, << >>, << >>)
    /\ io_faults = 0
    /\ reOp = ReOp("__init__", "", "None")

ScoreIdle ==
    /\ vscores = [i \in ScoreObjects |-> ValidationScoreInit]
    /\ score_thresholds = DefaultThresholds
    /\ scoreOp = [i \in ScoreObjects |-> "__init__"]

AiIdle == AiInit

SecretIdle ==
    /\ repo_file = RepoFile(<<"a", "p", "p", ".", "p", "y">>, <<"x", "=", "1">>)
    /\ secret_cache = {}
    /\ secret_results = << >>

VpIdle == VpInit

CommitIdle == CommitInit

RiskIdle ==
    /\ risk_results = << >>
    /\ risk_score = << >>

BatchIdle ==
    /\ batch_validator = BatchValidator(FALSE, TRUE)
    /\ batch_urls = << >>
    /\ batch_pos = 1
    /\ batch_results = << >>
    /\ batch_pc = "idle"

\* the components no specification below steps
AtRest == CommitIdle /\ RiskIdle /\ BatchIdle

ConfigInit ==
    ConfigIdle /\ RuleIdle /\ ScoreIdle /\ AiIdle /\ SecretIdle /\ VpIdle /\ AtRest

ConfigNext == ConfigStep

SpecConfig == ConfigInit /\ [][ConfigNext]_vars

RulesInit ==
    RuleEngineInit /\ ConfigIdle /\ ScoreIdle /\ AiIdle /\ SecretIdle /\ VpIdle /\ AtRest

RulesNext == RuleStep

SpecRules == RulesInit /\ [][RulesNext]_vars

ScoresInit ==
    ScoreInit /\ ConfigIdle /\ RuleIdle /\ AiIdle /\ SecretIdle /\ VpIdle /\ AtRest

ScoresNext == ScoreStep

SpecScore == ScoresInit /\ [][ScoresNext]_vars

AiDetectorInit ==
    AiInit /\ ConfigIdle /\ RuleIdle /\ ScoreIdle /\ SecretIdle /\ VpIdle /\ AtRest

AiDetectorNext == AiStep

SpecAI == AiDetectorInit /\ [][AiDetectorNext]_vars

SecretsInit ==
    SecretInit /\ ConfigIdle /\ RuleIdle /\ ScoreIdle /\ AiIdle /\ VpIdle /\ AtRest

SecretsNext == SecretStep

SpecSecrets == SecretsInit /\ [][SecretsNext]_vars

ValidateInit ==
    VpInit /\ ConfigIdle /\ RuleIdle /\ ScoreIdle /\ AiIdle /\ SecretIdle /\ AtRest

ValidateNext == VpStep

SpecValidate == ValidateInit /\ [][ValidateNext]_vars

\* the components the specifications below leave at rest
CoreIdle ==
    ConfigIdle /\ RuleIdle /\ ScoreIdle /\ AiIdle /\ SecretIdle /\ VpIdle

CommitsInit == CommitInit /\ CoreIdle /\ RiskIdle /\ BatchIdle

CommitsNext == CommitStep

SpecCommits == CommitsInit /\ [][CommitsNext]_vars

RiskScoreInit == RiskInit /\ CoreIdle /\ CommitIdle /\ BatchIdle

RiskScoreNext == RiskStep

SpecRisk == RiskScoreInit /\ [][RiskScoreNext]_vars

BatchesInit == BatchInit /\ CoreIdle /\ CommitIdle /\ RiskIdle

BatchesNext == BatchStep

SpecBatch == BatchesInit /\ [][BatchesNext]_vars

(***************************************************************************)
(* Claims on the configuration store                                       *)
(***************************************************************************)
WeightsSumToOne(w) == Abs(SumValues(w) - 1000) <= 1

StoredConfigs ==
    {files[n][1] : n \in {m \in ConfigNames : files[m] # <<>>}}
        \cup {cm_current[i] : i \in DOMAIN cm_current}

\* C1: after any sequence of ConfigManager operations every current or
\* stored config has weights summing to 1.0 within 1e-3; constructing a
\* config with other weights fails (ValueError, nothing written); and
\* update_score_weights with such weights returns False and leaves the
\* stored config unchanged.
C1_WeightsAlwaysSumToOne ==
    /\ [](\A c \in StoredConfigs : WeightsSumToOne(c.score_weights))
    /\ [](\A i \in DOMAIN cfgOp.weight_sum :
            Abs(cfgOp.weight_sum[i] - 1000) > 1 =>
                /\ cfgOp.op = "create_hackathon_config" => cfgOp.ret = "ValueError"
                /\ cfgOp.op = "update_score_weights" => cfgOp.ret = "False")
    /\ [][cfgOp'.ret \in {"ValueError", "False"} => files' = files]_vars

\* C1 witness: update_score_weights has just refused weights off the
\* tolerance for a config that is stored.
C1_Witness ==
    /\ cfgOp.op = "update_score_weights"
    /\ cfgOp.weight_sum = <<1002>>
    /\ cfgOp.ret = "False"
    /\ \E n \in ConfigNames : files[n] # <<>>

\* C4: every ValidationThresholds reachable through construction, load or
\* update_validation_thresholds has pass_threshold > review_threshold.
C4_PassAboveReview ==
    \A c \in StoredConfigs :
        c.validation_thresholds.pass_threshold
            > c.validation_thresholds.review_threshold

(***************************************************************************)
(* Claims on the rule engine                                               *)
(***************************************************************************)
\* C7: add_rule with a pattern that does not compile returns False, and
\* after any sequence of add_rule / remove_rule / load_plugin no rule whose
\* pattern does not compile is in get_all_rules() or produces a finding of
\* check_content.
C7_NoUncompilableRule ==
    /\ (reOp.op = "add_rule" /\ ~Compiles(reOp.arg)) => reOp.ret = "False"
    /\ \A i \in DOMAIN get_all_rules : Compiles(get_all_rules[i].pattern)
    /\ \A c \in Contents :
          \A i \in DOMAIN check_content(c) :
              check_content(c)[i].origin = "rule"
                  => Compiles(check_content(c)[i].pattern)

\* C8: add_rule returns False when the name is that of a rule already
\* present, so the names of get_all_rules() are pairwise distinct.
C8_RuleNamesDistinct ==
    /\ \A i, j \in DOMAIN get_all_rules :
          get_all_rules[i].name = get_all_rules[j].name => i = j
    /\ (reOp.op = "add_rule" /\ reOp.ret = "True") =>
          \A i \in 1..(Len(get_all_rules) - 1) :
              get_all_rules[i].name # get_all_rules[Len(get_all_rules)].name

\* the modules whose plugin classes all fail initialize()
FailingModules ==
    {m.name : m \in {n \in PluginCatalog :
                        \A i \in DOMAIN n.classes : ~n.classes[i].init_ok}}

\* C9: when a plugin's initialize() returns False, load_plugin returns False
\* and registers nothing of that plugin (no instance, no check_content
\* callable, no rules), whatever plugins were loaded before.
C9_FailedInitRegistersNothing ==
    [][(reOp'.op = "load_plugin" /\ reOp'.arg \in FailingModules) =>
          /\ reOp'.ret = "False"
          /\ plugin_instances' = plugin_instances
          /\ plugins' = plugins
          /\ custom_rules' = custom_rules]_vars

(***************************************************************************)
(* Claims on scoring                                                       *)
(***************************************************************************)
CategoryRank(c) ==
    CASE c = "FAILED" -> 0 [] c = "NEEDS_REVIEW" -> 1 [] c = "PASSED" -> 2

\* determine_category was the last call on score object i
Categorized(i) == scoreOp[i] = "determine_category"

\* C3: determine_category gives PASSED exactly when overall_score >=
\* pass_threshold, NEEDS_REVIEW exactly when review_threshold <=
\* overall_score < pass_threshold and FAILED otherwise; so under the same
\* thresholds a score that is not lower never gets a lower category.
C3_CategoryFollowsThresholds ==
    /\ \A i \in ScoreObjects :
          Categorized(i) =>
              LET s == vscores[i].overall_score
                  c == vscores[i].category
                  passing == s >= score_thresholds.pass_threshold
                  review == score_thresholds.review_threshold <= s
                               /\ s < score_thresholds.pass_threshold
              IN  /\ c = "PASSED" <=> passing
                  /\ c = "NEEDS_REVIEW" <=> review
                  /\ c = "FAILED" <=> (~passing /\ ~review)
    /\ \A i, j \in ScoreObjects :
          (Categorized(i) /\ Categorized(j)
              /\ vscores[i].overall_score <= vscores[j].overall_score)
          => CategoryRank(vscores[i].category)
                <= CategoryRank(vscores[j].category)

\* C3 witness: under the default thresholds one result sits exactly on the
\* pass threshold and is PASSED, the other exactly on the review threshold
\* and is NEEDS_REVIEW.
C3_Witness ==
    /\ score_thresholds = DefaultThresholds
    /\ Categorized(1) /\ Categorized(2)
    /\ vscores[1].overall_score = 90000 /\ vscores[1].category = "PASSED"
    /\ vscores[2].overall_score = 60000
    /\ vscores[2].category = "NEEDS_REVIEW"

\* C6: the score analyze_repo_content returns is min(0.95, 0.15*high +
\* 0.05*medium + 0.02*low) over the findings it returns: 0 without
\* findings, never above 0.95, and from one analysis to the next it does
\* not decrease when no count decreased.
C6_AiScoreFormula ==
    /\ [](ai_result # << >> =>
            LET f == ai_result[1].findings
                s == ai_result[1].ai_score
            IN  /\ s = Min(950, 150 * f.high + 50 * f.medium + 20 * f.low)
                /\ (f.high + f.medium + f.low = 0) => s = 0
                /\ s <= 950)
    /\ [][(ai_result # << >> /\ ai_result' # << >>
             /\ \A c \in AIConfidence :
                   ai_result'[1].findings[c] >= ai_result[1].findings[c])
          => ai_result'[1].ai_score >= ai_result[1].ai_score]_vars

\* C6 witness: an analysis of a tree with seven high-confidence findings,
\* whose weighted sum 1.05 is cut to 0.95.
C6_Witness ==
    /\ ai_result # << >>
    /\ ai_result[1].findings.high = 7
    /\ ai_result[1].ai_score = 950

\* C2: the overall_score validate_project computes is a convex combination
\* of the eight sub-scores (weights non-negative, keyed by the eight
\* categories, summing to 1) and lies in [0, 100].
C2_OverallScoreConvex ==
    (pc = "returned" /\ local.scored) =>
        /\ DOMAIN CallWeights \subseteq Categories
        /\ \A k \in DOMAIN CallWeights : CallWeights[k] >= 0
        /\ WeightsSumToOne(CallWeights)
        /\ result.scores.overall_score =
              SumOver([k \in Categories |->
                          WeightOf(CallWeights, k) * result.scores.scores[k]],
                      Categories) \div 1000
        /\ 0 <= result.scores.overall_score
        /\ result.scores.overall_score <= 100000

\* validate_project returned from one of its early exits: no credentials,
\* or a repository that could not be fetched
EarlyExit ==
    /\ pc = "returned"
    /\ ~call.has_token \/ result.github_results = << RepoError >>

\* C10: on an early exit no clone was made, no analyzer and no scoring ran,
\* and the result has a CRITICAL failure, category FAILED and every score
\* field (eight sub-scores, secret_security_score, overall_score) at 0.
C10_EarlyExitZeroScores ==
    EarlyExit =>
        /\ local.temp_dir = "none"
        /\ local.ran = {}
        /\ ~local.scored
        /\ \E i \in DOMAIN result.failures :
              result.failures[i].priority = "CRITICAL"
        /\ result.scores.category = "FAILED"
        /\ \A k \in Categories : result.scores.scores[k] = 0
        /\ result.scores.secret_security_score = 0
        /\ result.scores.overall_score = 0

\* C11: whenever validate_project made a temporary clone directory, the
\* directory is gone by the time the call returns or raises: after a failed
\* clone, after an analyzer raised, and after a complete analysis.
C11_TempDirRemoved ==
    pc \in {"returned", "raised"} => local.temp_dir \in {"none", "removed"}

\* C11 witness: a call that made the directory, had an analyzer raise in
\* the try block, and returned with the directory removed.
C11_Witness ==
    /\ pc = "returned"
    /\ local.raised = "commits"
    /\ local.temp_dir = "removed"

\* the analyzer stages the call in progress has enabled
EnabledStages ==
    {StageOrder[i] : i \in {j \in DOMAIN StageOrder : StageEnabled(StageOrder[j])}}

\* what a stage stored on the result, and what the field holds before it
StageOutput(r, stage) ==
    CASE stage = "ai"         -> r.ai_detection_results
      [] stage = "complexity" -> r.code_complexity_results
      [] stage = "technology" -> r.technology_analysis_results
      [] stage = "rules"      -> r.rule_violations
      [] stage = "commits"    -> r.commit_analysis_results
      [] stage = "secrets"    -> r.secret_analysis_results

\* the items of the result that record an exception of the try block
DegradationItems(r) ==
    {r.failures[i] : i \in {j \in DOMAIN r.failures : r.failures[j].about = "clone"}}
    \cup {r.warnings[i] : i \in {j \in DOMAIN r.warnings : r.warnings[j].about = "clone"}}

\* C12: when one analyzer stage raised, the call still returns a scored
\* result, every other enabled analyzer ran, the failed analyzer's output is
\* as it was before the stage, and the one item recording the failure has
\* priority MEDIUM or lower.
C12_AnalyzerFailureIsolated ==
    (pc \in {"returned", "raised"} /\ local.raised \in EnabledStages) =>
        /\ pc = "returned"
        /\ local.scored
        /\ EnabledStages \subseteq local.ran
        /\ StageOutput(result, local.raised)
              = StageOutput(ValidationResultInit, local.raised)
        /\ Cardinality(DegradationItems(result)) = 1
        /\ \A item \in DegradationItems(result) :
              item.priority \in {"MEDIUM", "LOW"}

\* C15: in a run with technology analysis on and a config listing required
\* and disallowed technologies, the stored missing_required is required
\* minus detected, forbidden_used is detected intersected with disallowed,
\* and the technology score is the one _calculate_scores builds from the
\* compliance ratio of those sets.
C15_TechnologyRequirementsChecked ==
    (pc = "returned" /\ local.scored /\ call.config # << >>
        /\ result.technology_analysis_results # << >>) =>
        LET t == result.technology_analysis_results[1]
            required == call.config[1].required_technologies
            disallowed == call.config[1].disallowed_technologies
            checked == check_tech_requirements(t.detected_technologies,
                                               required, disallowed)
            expected == [result EXCEPT !.technology_analysis_results =
                            << [t EXCEPT
                                  !.missing_required = checked.missing_required,
                                  !.forbidden_used = checked.forbidden_used] >>]
        IN  (required # {} /\ disallowed # {}) =>
               /\ t.missing_required = checked.missing_required
               /\ t.forbidden_used = checked.forbidden_used
               /\ result.scores.scores["technology"]
                     = ScoreTechnology(expected, call.config)

\* the secret scanner ran in the call in progress
ScannerRan == "secrets" \in local.ran

\* C16: every result validate_project returns has secret_security_score
\* 100 * get_risk_score(secret results) when the secret scanner ran, and
\* exactly 100 when it did not: scan not asked for, security feature off,
\* clone failure, early exit.
C16_SecretScoreDefault ==
    pc = "returned" =>
        result.scores.secret_security_score =
            IF ScannerRan
            THEN 100 * get_risk_score(result.secret_analysis_results)
            ELSE 100000

\* C17: get_risk_score is 1.0 when no secrets were found and otherwise
\* 1 - min(1, 5 * (1.0*critical + 0.7*high + 0.4*medium + 0.1*low)
\* / max(1, files_scanned)), times 0.8 when a critical secret was found;
\* it always lies in [0, 1].
C17_RiskScoreFormula ==
    risk_score # << >> =>
        /\ risk_score[1] \in 0..1000
        /\ (risk_results = << >> \/ ~risk_results[1].secrets_found)
              => risk_score[1] = 1000
        /\ (risk_results # << >> /\ risk_results[1].secrets_found) =>
              LET r == risk_results[1]
                  weighted == 1000 * r.critical_secrets + 700 * r.high_risk_secrets
                                + 400 * r.medium_risk_secrets
                                + 100 * r.low_risk_secrets
                  scanned == IF r.files_scanned < 1 THEN 1 ELSE r.files_scanned
                  ratio == (5 * weighted) \div scanned
                  base == 1000 - (IF ratio > 1000 THEN 1000 ELSE ratio)
              IN  risk_score[1] = IF r.critical_secrets > 0
                                  THEN (8 * base) \div 10 ELSE base

\* C17 witness: one critical and two low secrets over 40 files scanned, so
\* that neither the cap nor the floor applies: (1 - 6/40) * 0.8 = 0.68.
C17_Witness ==
    /\ risk_score = << 680 >>
    /\ risk_results # << >>
    /\ risk_results[1].critical_secrets = 1
    /\ risk_results[1].low_risk_secrets = 2
    /\ risk_results[1].files_scanned = 40

\* C18: validate_urls ends by returning, with exactly one result per input
\* URL in input order; a URL that cannot be fetched or resolved gives a
\* failure result for itself and the URLs after it are still validated.
C18_OneResultPerUrl ==
    batch_pc \in {"returned", "raised"} =>
        /\ batch_pc = "returned"
        /\ Len(batch_results) = Len(batch_urls)
        /\ \A i \in DOMAIN batch_results : batch_results[i].url = i

\* 100 less 40 * imbalance_factor and 50 * mismatch_ratio, not below 0, for
\* a team analysis t: both deductions are nil when neither flag is set, and
\* the factors of a set flag are taken at their largest, 1.0
TeamComplianceOf(t) ==
    IF ~t.contribution_imbalance /\ ~t.github_team_mismatch THEN 100000
    ELSE Max(0, 100000 - 40000 - 50000)

\* C24: whenever team analysis ran, validate_project gets through scoring
\* without raising, and team_compliance is
\* max(0, 100 - 40 * imbalance_factor - 50 * mismatch_ratio), within 0..100.
C24_TeamComplianceScored ==
    (result.team_analysis_results # << >> /\ pc # "calculate_scores") =>
        /\ pc # "raised"
        /\ local.scored
        /\ result.scores.scores.team_compliance =
              TeamComplianceOf(result.team_analysis_results[1])
        /\ result.scores.scores.team_compliance \in 0..100000

\* _validate_results has run on the result
ItemsGenerated == pc = "finish" \/ (pc = "returned" /\ local.scored)

\* how many items of list are about the AI indicators
AiItems(list) == Cardinality({i \in DOMAIN list : list[i].about = "ai"})

\* C25: once the items are generated the result holds exactly one item
\* about AI indicators, fixed by the number n of AI findings alone: a HIGH
\* failure for n > 10, a MEDIUM warning for 1 <= n <= 10, a pass for n = 0.
C25_OneAiItem ==
    ItemsGenerated =>
        LET n == CountFindings(result.ai_detection_results)
        IN  /\ AiItems(result.failures) + AiItems(result.warnings)
                  + AiItems(result.passes) = 1
            /\ n > 10 => (\E i \in DOMAIN result.failures :
                              result.failures[i] = Item("HIGH", "ai"))
            /\ (1 <= n /\ n <= 10) =>
                  (\E i \in DOMAIN result.warnings :
                      result.warnings[i] = Item("MEDIUM", "ai"))
            /\ n = 0 => AiItems(result.passes) = 1

\* C27: no result returned by validate_project has category PASSED while
\* its failures hold an item of priority CRITICAL.
C27_NoPassWithCriticalFailure ==
    (pc = "returned" /\ result.scores.category = "PASSED") =>
        \A i \in DOMAIN result.failures : result.failures[i].priority # "CRITICAL"

\* r as it would be had the secret scanner not run: no scan result, the
\* secret score and the derived weights at their defaults, and no items
WithoutSecretScan(r) ==
    [r EXCEPT !.secret_analysis_results = << >>,
              !.scores.secret_security_score = ValidationScoreInit.secret_security_score,
              !.score_weights = << >>,
              !.failures = << >>,
              !.warnings = << >>]

\* the ValidationScore of the run had the secret scanner not run
ScoreWithoutSecretScan ==
    LET rescored == _calculate_scores(WithoutSecretScan(result),
                                      local.ai_score, call.config)[1]
    IN  determine_category(calculate_overall_score(rescored.scores, CallWeights),
                           CallThresholds)

\* C28: overall_score and category do not depend on the secret scan: the
\* secret stage changes nothing of the result but the scan result, the
\* secret score and the items, and every scored result that is returned
\* carries the overall_score and category the same run has with no scan.
C28_SecretScanLeavesOverallScore ==
    [][/\ pc = "secrets" => WithoutSecretScan(result') = WithoutSecretScan(result)
       /\ (pc' = "returned" /\ local'.scored) =>
             /\ result'.scores.overall_score = ScoreWithoutSecretScan'.overall_score
             /\ result'.scores.category = ScoreWithoutSecretScan'.category]_vars

\* a scored result is returned for which the scanner ran under a config and
\* found a critical secret
C28_Witness ==
    /\ pc = "returned"
    /\ local.scored
    /\ result.score_weights # << >>
    /\ result.secret_analysis_results[1].critical_secrets > 0
    /\ result.scores.overall_score > 0

\* complete_validation() has set validation_end on r
Sealed(r) == r.validation_end > 0

\* C20: in every run of validate_project the result is sealed last: the
\* returned result has validation_end set, it was set once, and from the
\* step that set it on no item is added and no score, metric or report
\* field changes.
C20_SealedLast ==
    [][/\ pc' = "returned" => Sealed(result')
       /\ result'.validation_end <= 1
       /\ Sealed(result) => result' = result]_vars

(***************************************************************************)
(* Claims on the order of check_content's findings                         *)
(***************************************************************************)
\* the findings that come from plugins, in the order check_content gives them
PluginPart(findings) == SelectSeq(findings, LAMBDA f : f.origin # "rule")

\* no plugin finding stands before a rule finding
RulesFirst(findings) ==
    \A i, j \in DOMAIN findings :
        (findings[i].origin # "rule" /\ findings[j].origin = "rule") => j < i

IsPrefix(s, t) == Len(s) <= Len(t) /\ SubSeq(t, 1, Len(s)) = s

\* C26: when add_rule returns False, get_all_rules() is what it was before
\* the call, also when the call failed on reading or writing
\* custom_rules.json.
C26_FailedAddRuleChangesNothing ==
    [][\A n \in AddRuleNames, pt \in AddRulePatterns, io \in BOOLEAN :
          (add_rule(n, pt, "medium", io) /\ reOp'.ret = "False") =>
              get_all_rules' = get_all_rules]_vars

\* C29: after unload_plugin(name) has returned True, has_plugin(name) is
\* False and check_content runs no plugin of that name, whatever was loaded
\* and unloaded before, the same plugin loaded twice included.
C29_UnloadedPluginGone ==
    [][\A n \in PluginClassNames :
          (unload_plugin(n) /\ reOp'.ret = "True") =>
              /\ ~has_plugin(n)'
              /\ \A c \in Contents :
                    \A i \in DOMAIN check_content(c)' :
                        \/ check_content(c)'[i].origin = "rule"
                        \/ check_content(c)'[i].rule # n]_vars

\* C19: check_content gives the rule findings first and then the plugin
\* findings in the order the plugins were loaded, function-backed or
\* class-backed: so loading a plugin leaves the plugin findings of every
\* text as they were and adds the new plugin's findings after them.
C19_PluginFindingsInLoadOrder ==
    [][reOp'.op = "load_plugin" =>
          \A c \in Contents :
              /\ RulesFirst(check_content(c)')
              /\ IsPrefix(PluginPart(check_content(c)),
                          PluginPart(check_content(c)'))]_vars

(***************************************************************************)
(* Claims on the commit analyzer                                           *)
(***************************************************************************)
\* analyze_commits was called and returned
CommitsAnalyzed == commit_result # << >> /\ commit_result[1].out # << >>

\* the commits of the analyzed log that lie inside the window it was given
InWindow ==
    {c \in commit_result[1].log : during_hackathon(c.time, commit_result[1].window)}

EveryDayCovered(commits, w) ==
    \A day \in DayOf(w.start_date)..DayOf(w.end_date) :
        \E c \in commits : DayOf(c.time) = day

AllGapsEqual(commits) ==
    LET gaps == TimeDiffs(SortedDates(commits))
    IN  \A i, j \in DOMAIN gaps : gaps[i] = gaps[j]

\* C13: analyze_commits gives commit_distribution_score 0.0 whenever no
\* commit of the log lies inside the window, the log being empty or not.
C13_NoInWindowCommitsScoreZero ==
    (CommitsAnalyzed /\ InWindow = {}) =>
        commit_result[1].out[1].commit_distribution_score = 0

\* C14: for a log with in-window commits, commit_distribution_score is 1.0
\* only when every calendar day of the window holds an in-window commit and
\* all gaps between consecutive in-window commits are equal.
C14_FullScoreOnlyWhenEven ==
    (CommitsAnalyzed /\ InWindow # {}
        /\ commit_result[1].out[1].commit_distribution_score = 1000) =>
        /\ EveryDayCovered(InWindow, commit_result[1].window)
        /\ AllGapsEqual(InWindow)

\* days_with_commits / total_days of the in-window commits, in thousandths
Coverage(commits, w) ==
    (1000 * Cardinality({DayOf(c.time) : c \in commits}))
        \div (DayOf(w.end_date) - DayOf(w.start_date) + 1)

\* C21: for a log with two or more in-window commits analyze_commits
\* returns without raising, commit_distribution_score lies in [0, 1], and
\* when all gaps between consecutive in-window commits are identical (two
\* commits have a single gap) it is 0.7 * coverage + 0.3 * 1.
C21_DistributionNeverRaises ==
    (commit_result # << >> /\ Cardinality(InWindow) >= 2) =>
        /\ commit_result[1].out # << >>
        /\ commit_result[1].out[1].commit_distribution_score \in 0..1000
        /\ AllGapsEqual(InWindow) =>
              commit_result[1].out[1].commit_distribution_score =
                  (7 * Coverage(InWindow, commit_result[1].window) + 3000) \div 10

\* C22: suspicious_patterns is true exactly when some commit changed more
\* than 1000 lines or strictly more than 30% of the in-window commits were
\* made at hours 0 to 4; commits outside the window do not count.
C22_SuspiciousPatterns ==
    CommitsAnalyzed =>
        LET log == commit_result[1].log
            unusual_inside == {c \in InWindow : HourOf(c.time) \in UnusualTimingHours}
        IN  commit_result[1].out[1].suspicious_patterns <=>
                \/ \E c \in log : c.lines > SuspiciousCommitSize
                \/ 10 * Cardinality(unusual_inside) > 3 * Cardinality(InWindow)

(***************************************************************************)
(* Claims on the secret scanner                                            *)
(***************************************************************************)
\* what analyze_repo returns for a tree holding file when the cache
\* directory is empty
FreshScan(file) ==
    LET sensitive == IF IsSensitive(file.name) THEN << SensitiveEntry(file.name) >>
                     ELSE << >>
    IN  IF \E p \in exclude_patterns : Has(file.name, p)
        THEN AnalysisResult(<< >>, << >>, 0, 1)
        ELSE IF ~_is_text_file(file.name)
        THEN AnalysisResult(<< >>, sensitive, 0, 1)
        ELSE AnalysisResult(_scan_for_secrets(file.content, file.name),
                            sensitive, 1, 1)

\* C23: the cache is transparent: whatever was scanned before, every
\* analyze_repo call returns for the tree what a scan with an empty cache
\* returns for it (findings with their paths, sensitive_files and counts).
C23_CacheTransparent ==
    [][analyze_repo => secret_results' = << FreshScan(repo_file) >>]_vars

\* C30: in every result of analyze_repo total_secrets is the sum of the
\* four per-severity counts and is len(findings) + len(sensitive_files),
\* and secrets_found is true exactly when total_secrets > 0.
C30_CountsAddUp ==
    secret_results # << >> =>
        LET r == secret_results[1]
        IN  /\ r.total_secrets = r.critical_secrets + r.high_risk_secrets
                                   + r.medium_risk_secrets + r.low_risk_secrets
            /\ r.total_secrets = Len(r.findings) + Len(r.sensitive_files)
            /\ r.secrets_found <=> r.total_secrets > 0

\* a scan has returned both a finding and a sensitive file
C30_Witness ==
    /\ secret_results # << >>
    /\ secret_results[1].findings # << >>
    /\ secret_results[1].sensitive_files # << >>

FindingFields(f) ==
    {f.file, f.type, f.risk, f.matched_pattern, f.matched_value}

\* every finding the scanner holds: returned last, or in a cache entry
StoredFindings ==
    UNION ({ {e.secrets[i] : i \in DOMAIN e.secrets} : e \in secret_cache }
           \cup { {r.findings[i] : i \in DOMAIN r.findings} :
                    r \in {secret_results[j] : j \in DOMAIN secret_results} })

\* finding f is what the scan of line records
Records(f, line) ==
    \E n \in RepoNames :
        \E i \in DOMAIN _scan_for_secrets(<<line>>, n) :
            _scan_for_secrets(<<line>>, n)[i] = f

\* C5: for a recorded secret match s longer than 8 characters no field of
\* the stored finding contains s, and matched_value is the first 4
\* characters of s, "****", and its last 4 characters.
C5_NoRawSecretStored ==
    \A f \in StoredFindings :
        \A line \in RepoLines :
            Records(f, line) =>
                LET s == password_match(line)[1]
                IN  Len(s) > 8 =>
                      /\ \A field \in FindingFields(f) : ~Has(field, s)
                      /\ f.matched_value =
                            SubSeq(s, 1, 4) \o <<"*", "*", "*", "*">>
                               \o SubSeq(s, Len(s) - 3, Len(s))

====
